---- MODULE Spec2Model ----
(***************************************************************************)
(* A model of langkit's parser combinators (langkit/parsers.py): the       *)
(* grammar registry, the parser objects, left-recursion analysis, type     *)
(* inference and code emission.                                            *)
(*                                                                         *)
(* Parser objects live in a heap `nodes` (a sequence of records, the index *)
(* of a record being the identity of the object).  Grammars are built      *)
(* bottom-up as Python evaluates a grammar definition: a constructor call  *)
(* takes already-built parsers as arguments.  `stack` holds the parsers    *)
(* that were built and not yet given to a parent or to add_rules.          *)
(***************************************************************************)
EXTENDS Integers, Sequences, FiniteSets, TLC

VARIABLES
    nodes,      \* heap of parser objects: the fields the constructors set
    obj,        \* heap of parser objects: the fields that change later
    stack,      \* parsers built so far that have no parent yet
    rules,      \* Grammar.rules: rule name -> parser
    main,       \* Grammar.main_rule_name
    hash_order, \* the iteration order of Python sets of types, in this process
    res,        \* outcome of the last analysis or emission call
    ctx,        \* get_context(): fns, generated_parsers; the gen_name counter;
                \* `added` lists the calls of fns.add in the order they were made
    bindings,   \* the calls of Row.assign_wrapper made so far, in order
    field_types, \* the types set_types gave to the own fields of each AST class
    diagnostics  \* langkit.diagnostics: Diagnostics.has_pending_error, and the
                 \* number of messages printed

vars ==
    <<nodes, obj, stack, rules, main, hash_order, res, ctx, bindings, field_types,
      diagnostics>>

\* ---------------------------------------------------------------- bounds
MaxNodes == 4
MaxStack == 2
MaxTypeNodes == 4
MaxOrderNodes == 6
\* the depth of Python's call stack (sys.getrecursionlimit()), scaled down
RecursionLimit == 24
MaxEmitNodes == 4
\* the gen_name counter stops the emission calls at this value
MaxIds == 3
MaxFieldNodes == 4
MaxGrammarNodes == 3
MaxDeferNodes == 4
MaxOrNodes == 5
MaxOptNodes == 5
MaxProgressNodes == 4
MaxGetitemNodes == 5
MaxCycleNodes == 4
\* the diagnostics calls stop after this number of messages
MaxMessages == 3

RuleNames == {"S", "A", "B"}

None == "None"

\* ------------------------------------------------------- parser objects
\* The fields set by the constructors (__init__) of the Parser subclasses.
\* kids: Or.parsers / Row.parsers / the single `parser` of List, Opt,
\* Extract, Discard, Transform and Enum (empty when Enum has no parser).
Blank ==
    [kind |-> "Tok", kids |-> <<>>, name |-> "", keep |-> FALSE,
     ev |-> FALSE, sep |-> 0, typ |-> None, index |-> 0,
     booleanize |-> FALSE, is_error |-> FALSE, contains_anonymous_row |-> FALSE,
     revtree |-> None, tparser |-> 0]

\* The fields that change after construction: Parser.is_root,
\* Parser.gen_fn_name, Or.cached_type, Or.is_processing_type, Defer._parser
\* (0 is None), Row.typ, Row.args and Row.allargs.
Fresh ==
    [is_root |-> FALSE, cached_type |-> None, is_processing_type |-> FALSE,
     parser_ |-> 0, gen_fn_name |-> <<>>, typ |-> None, args |-> <<>>,
     allargs |-> <<>>, grammar |-> None, lookups |-> 0]

Tok(keep) == [Blank EXCEPT !.kind = "Tok", !.keep = keep]
Defer(rule_name) == [Blank EXCEPT !.kind = "Defer", !.name = rule_name]
Null(result_type) == [Blank EXCEPT !.kind = "Null", !.typ = result_type]
\* Null(parser): the Null parser returns the type of another parser
NullLike(parser) == [Blank EXCEPT !.kind = "Null", !.tparser = parser]
Enum(kids, enum_type) == [Blank EXCEPT !.kind = "Enum", !.kids = kids, !.typ = enum_type]
Or(parsers) == [Blank EXCEPT !.kind = "Or", !.kids = parsers]
Row(parsers) == [Blank EXCEPT !.kind = "Row", !.kids = parsers]
List(parser, sep, empty_valid) ==
    [Blank EXCEPT !.kind = "List", !.kids = <<parser>>, !.sep = sep, !.ev = empty_valid]
\* List(parser, revtree=revtree)
ListFold(parser, revtree) == [List(parser, 0, FALSE) EXCEPT !.revtree = revtree]
Opt(parser) == [Blank EXCEPT !.kind = "Opt", !.kids = <<parser>>]
\* Opt(parser, *parsers) with parsers given: Opt over Row(parser, *parsers)
OptOverRow(row) == [Opt(row) EXCEPT !.contains_anonymous_row = TRUE]
Extract(parser, index) ==
    [Blank EXCEPT !.kind = "Extract", !.kids = <<parser>>, !.index = index]
Discard(parser) == [Blank EXCEPT !.kind = "Discard", !.kids = <<parser>>]
Transform(parser, typ) ==
    [Blank EXCEPT !.kind = "Transform", !.kids = <<parser>>, !.typ = typ]

\* Parser.children() and its overrides: the sub-parsers a traversal visits.
\* Enum.children() returns [] although Enum holds a sub-parser, and
\* List.children() leaves the separator out.
Children(h, p) ==
    CASE h[p].kind \in {"Or", "Row"} -> h[p].kids
      [] h[p].kind \in {"List", "Opt", "Extract", "Discard", "Transform"} -> h[p].kids
      [] OTHER -> <<>>

\* Every parser object a parser holds in one of its fields.
SubParsers(h, p) ==
    {h[p].kids[i] : i \in 1..Len(h[p].kids)} \cup (IF h[p].sep = 0 THEN {} ELSE {h[p].sep})

\* ----------------------------------------------- Grammar.get_unreferenced_rules
\* The traversal state: referenced_rules, the rules whose root parser was
\* visited, in order, and the exception raised (err): the KeyError of
\* self.rules[rule_name], or the RuntimeError of a call made when no
\* Python frame is left (depth counts the frames left).
RECURSIVE visit_parser(_, _, _, _, _)
RECURSIVE visit_rule(_, _, _, _, _)
RECURSIVE visit_children(_, _, _, _, _, _)

visit_children(h, rs, ch, i, st, depth) ==
    IF i > Len(ch) \/ st.err # None THEN st
    ELSE visit_children(h, rs, ch, i + 1, visit_parser(h, rs, ch[i], st, depth), depth)

visit_parser(h, rs, p, st, depth) ==
    IF st.err # None THEN st
    ELSE IF depth = 0 THEN [st EXCEPT !.err = "RuntimeError"]
    ELSE visit_children(h, rs, Children(h, p), 1,
                        IF h[p].kind = "Defer"
                        THEN visit_rule(h, rs, h[p].name, st, depth - 1)
                        ELSE st,
                        depth - 1)

\* visit_rule without the test on referenced_rules
visit_rule_unguarded(h, rs, rule_name, st, depth) ==
    IF st.err # None THEN st
    ELSE IF depth = 0 THEN [st EXCEPT !.err = "RuntimeError"]
    ELSE IF rule_name \notin DOMAIN rs
    THEN [st EXCEPT !.referenced = @ \cup {rule_name}, !.visits = @ \o <<rule_name>>,
                    !.err = "KeyError"]
    ELSE visit_parser(h, rs, rs[rule_name],
                      [st EXCEPT !.referenced = @ \cup {rule_name},
                                 !.visits = @ \o <<rule_name>>],
                      depth - 1)

visit_rule(h, rs, rule_name, st, depth) ==
    IF st.err # None THEN st
    ELSE IF depth = 0 THEN [st EXCEPT !.err = "RuntimeError"]
    ELSE IF rule_name \in st.referenced THEN st
    ELSE IF rule_name \notin DOMAIN rs
    THEN [st EXCEPT !.referenced = @ \cup {rule_name}, !.visits = @ \o <<rule_name>>,
                    !.err = "KeyError"]
    ELSE visit_parser(h, rs, rs[rule_name],
                      [st EXCEPT !.referenced = @ \cup {rule_name},
                                 !.visits = @ \o <<rule_name>>],
                      depth - 1)

get_unreferenced_rules(h, rs, m) ==
    LET st == visit_rule(h, rs, m, [referenced |-> {}, err |-> None, visits |-> <<>>],
                         RecursionLimit)
    IN  [val |-> IF st.err # None THEN {} ELSE (DOMAIN rs) \ st.referenced,
         exc |-> st.err, visits |-> st.visits]

\* --------------------------------------------------- left-recursion analysis
\* always_make_progress(parser)
RECURSIVE always_make_progress(_, _)
always_make_progress(h, p) ==
    IF h[p].kind = "List"
    THEN (~h[p].ev) \/ always_make_progress(h, h[p].kids[1])
    ELSE h[p].kind \notin {"Opt", "Null"}

\* Parser._is_left_recursive(rule_name) and its overrides.  The value is
\* "True", "False", or "AssertionError" when the assert of
\* List._is_left_recursive fails (the exception propagates to the caller).
RECURSIVE is_left_recursive_(_, _, _)
RECURSIVE Or_is_left_recursive(_, _, _, _)
RECURSIVE Row_is_left_recursive(_, _, _, _)

\* any(parser._is_left_recursive(rule_name) for parser in self.parsers)
Or_is_left_recursive(h, ps, i, rule_name) ==
    IF i > Len(ps) THEN "False"
    ELSE LET r == is_left_recursive_(h, ps[i], rule_name)
         IN  IF r = "False" THEN Or_is_left_recursive(h, ps, i + 1, rule_name) ELSE r

Row_is_left_recursive(h, ps, i, rule_name) ==
    IF i > Len(ps) THEN "False"
    ELSE LET r == is_left_recursive_(h, ps[i], rule_name)
         IN  IF r # "False" THEN r
             ELSE IF always_make_progress(h, ps[i]) THEN "False"
             ELSE Row_is_left_recursive(h, ps, i + 1, rule_name)

\* List._is_left_recursive without its assert
List_is_left_recursive_unchecked(h, p, rule_name) ==
    is_left_recursive_(h, h[p].kids[1], rule_name)

List_is_left_recursive(h, p, rule_name) ==
    LET r == is_left_recursive_(h, h[p].kids[1], rule_name)
    IN  IF r = "True" /\ (h[p].ev \/ ~always_make_progress(h, h[p].kids[1]))
        THEN "AssertionError"
        ELSE r

Opt_is_left_recursive(h, p, rule_name) ==
    is_left_recursive_(h, h[p].kids[1], rule_name)

Defer_is_left_recursive(h, p, rule_name) ==
    IF h[p].name = rule_name THEN "True" ELSE "False"

is_left_recursive_(h, p, rule_name) ==
    CASE h[p].kind \in {"Tok", "Null"} -> "False"
      [] h[p].kind = "Defer" -> Defer_is_left_recursive(h, p, rule_name)
      [] h[p].kind = "Or" -> Or_is_left_recursive(h, h[p].kids, 1, rule_name)
      [] h[p].kind = "Row" -> Row_is_left_recursive(h, h[p].kids, 1, rule_name)
      [] h[p].kind = "List" -> List_is_left_recursive(h, p, rule_name)
      [] h[p].kind = "Opt" -> Opt_is_left_recursive(h, p, rule_name)
      [] h[p].kind \in {"Extract", "Discard", "Transform"} ->
            is_left_recursive_(h, h[p].kids[1], rule_name)
      [] h[p].kind = "Enum" ->
            IF h[p].kids # <<>> THEN is_left_recursive_(h, h[p].kids[1], rule_name)
            ELSE "False"

\* Parser.name: the name set_name gave the rule; Defer.name is overridden
\* and returns the name of the rule it refers to.
NameOf(h, p, given) == IF h[p].kind = "Defer" THEN h[p].name ELSE given

\* Parser.is_left_recursive() on the parser registered as rule `rule`.
is_left_recursive(h, rs, rule) ==
    is_left_recursive_(h, rs[rule], NameOf(h, rs[rule], rule))

\* ----------------------------------------------------------- result types
\* The classes of langkit.compiled_types that parsers.py uses: Token,
\* BoolType, the enumeration types (subclasses of EnumType), and the AST
\* node classes, a hierarchy rooted at ASTNode.
ASTTypes == {"ASTNode", "NodeA", "NodeB", "NodeA1"}
EnumTypes == {"EnumA", "EnumB"}
Types == {"Token", "BoolType"} \cup EnumTypes \cup ASTTypes

\* the base class of an AST node class
ParentOf(t) ==
    CASE t = "NodeA" -> "ASTNode"
      [] t = "NodeB" -> "ASTNode"
      [] t = "NodeA1" -> "NodeA"
      [] OTHER -> None

\* issubclass(t, ASTNode)
IsASTNode(t) == t \in ASTTypes

RECURSIVE Ancestors(_)
\* t and its base classes
Ancestors(t) == IF t = None THEN {} ELSE {t} \cup Ancestors(ParentOf(t))

\* langkit.utils.common_ancestor(*types): the nearest common ancestor of
\* AST node classes; it fails when it is given no class at all.
common_ancestor(types) ==
    IF types = {} THEN "IndexError"
    ELSE LET common == {a \in ASTTypes : \A t \in types : a \in Ancestors(t)}
         IN  CHOOSE a \in common : \A b \in common : b \in Ancestors(a)

\* type(t), the metaclass of the class t.  Subclasses of one base class
\* share its metaclass (the enumeration types are EnumType subclasses, the
\* AST node classes are ASTNode subclasses); classes without a common base
\* are taken to have different metaclasses, the case in which the assert
\* of Or.get_type rejects most.
Metaclass(t) ==
    CASE t \in ASTTypes -> "type(ASTNode)"
      [] t \in EnumTypes -> "type(EnumType)"
      [] OTHER -> t

\* the exceptions a get_type call can end with
Exceptions == {"AssertionError", "KeyError", "AttributeError", "IndexError", "RuntimeError"}

\* t.list_type()
list_type(t) ==
    CASE t = None -> "AttributeError"
      [] t \in Types -> "ListOf" \o t
      [] OTHER -> "ListOfList"

\* list(types)[0]: the first element of a set of types in iteration order
FirstOf(types, order) ==
    LET pos == {i \in 1..Len(order) : order[i] \in types}
    IN  IF pos = {} THEN CHOOSE t \in types : TRUE
        ELSE order[CHOOSE i \in pos : \A j \in pos : i <= j]

\* The two cases of Or.get_type, once the types of the alternatives are
\* gathered in the set `types`.
Unify(types, order) ==
    IF \A t \in types : IsASTNode(t) THEN common_ancestor(types)
    ELSE LET typs0 == FirstOf(types, order)
         IN  IF \A t \in types : Metaclass(t) = Metaclass(typs0)
             THEN typs0
             ELSE "AssertionError"

\* Parser.get_type() and its overrides.  st is the heap `obj`, which the
\* call changes (Or.cached_type, Or.is_processing_type, Defer._parser);
\* depth is the number of Python frames left before the interpreter raises
\* "maximum recursion depth exceeded".  The value is [st, t, types]: the
\* heap after the call, the type returned (None, or an exception raised),
\* and for an Or that computed its type the set `types` it gathered.
RECURSIVE get_type(_, _, _, _, _, _)
RECURSIVE Or_gather(_, _, _, _, _, _, _, _)

Ret(st, t) == [st |-> st, t |-> t, types |-> {}]

\* for m in self.parsers: t = m.get_type(); if t: types.add(t)
Or_gather(h, rs, ps, i, st, types, depth, order) ==
    IF i > Len(ps) THEN [st |-> st, t |-> None, types |-> types]
    ELSE LET r == get_type(h, rs, ps[i], st, depth, order)
         IN  IF r.t \in Exceptions THEN [st |-> r.st, t |-> r.t, types |-> types]
             ELSE Or_gather(h, rs, ps, i + 1, r.st,
                            IF r.t = None THEN types ELSE types \cup {r.t},
                            depth, order)

\* Or.get_type with the is_processing_type guard left out
Or_get_type_unguarded(h, rs, p, st, depth, order) ==
    IF st[p].cached_type # None THEN Ret(st, st[p].cached_type)
    ELSE LET g == Or_gather(h, rs, h[p].kids, 1, st, {}, depth, order)
             t == IF g.t \in Exceptions THEN g.t ELSE Unify(g.types, order)
         IN  [st |-> IF t \in Exceptions THEN g.st
                     ELSE [g.st EXCEPT ![p].cached_type = t],
              t |-> t, types |-> g.types]

\* Or.get_type with `self.is_processing_type = False` after the
\* computation instead of in a finally clause
Or_get_type_no_finally(h, rs, p, st, depth, order) ==
    IF st[p].cached_type # None THEN Ret(st, st[p].cached_type)
    ELSE IF st[p].is_processing_type THEN Ret(st, None)
    ELSE LET st1 == [st EXCEPT ![p].is_processing_type = TRUE]
             g == Or_gather(h, rs, h[p].kids, 1, st1, {}, depth, order)
             t == IF g.t \in Exceptions THEN g.t ELSE Unify(g.types, order)
         IN  [st |-> IF t \in Exceptions THEN g.st
                     ELSE [g.st EXCEPT ![p].is_processing_type = FALSE,
                                       ![p].cached_type = t],
              t |-> t, types |-> g.types]

Or_get_type(h, rs, p, st, depth, order) ==
    IF st[p].cached_type # None THEN Ret(st, st[p].cached_type)
    ELSE IF st[p].is_processing_type THEN Ret(st, None)
    ELSE LET st1 == [st EXCEPT ![p].is_processing_type = TRUE]
             g == Or_gather(h, rs, h[p].kids, 1, st1, {}, depth, order)
             t == IF g.t \in Exceptions THEN g.t ELSE Unify(g.types, order)
             \* finally: self.is_processing_type = False
             st2 == [g.st EXCEPT ![p].is_processing_type = FALSE]
         IN  [st |-> IF t \in Exceptions THEN st2
                     ELSE [st2 EXCEPT ![p].cached_type = t],
              t |-> t, types |-> g.types]

\* Defer.parser without `if not self._parser`: parser_fn is called by
\* every use
Defer_parser_uncached(rs, h, p, st) ==
    IF h[p].name \notin DOMAIN rs THEN [st |-> st, parser |-> 0]
    ELSE [st |-> [st EXCEPT ![p].parser_ = rs[h[p].name], ![p].lookups = @ + 1],
          parser |-> rs[h[p].name]]

\* Defer.parser: the referenced parser, looked up on first use (parser is
\* 0 when parser_fn raises KeyError).  lookups counts the calls of
\* parser_fn that returned a rule.
Defer_parser(rs, h, p, st) ==
    IF st[p].parser_ # 0 THEN [st |-> st, parser |-> st[p].parser_]
    ELSE IF h[p].name \notin DOMAIN rs THEN [st |-> st, parser |-> 0]
    ELSE [st |-> [st EXCEPT ![p].parser_ = rs[h[p].name], ![p].lookups = @ + 1],
          parser |-> rs[h[p].name]]

Defer_get_type(h, rs, p, st, depth, order) ==
    LET d == Defer_parser(rs, h, p, st)
    IN  IF d.parser = 0 THEN Ret(st, "KeyError")
        ELSE LET r == get_type(h, rs, d.parser, d.st, depth, order)
             IN  Ret(r.st, r.t)

List_get_type(h, rs, p, st, depth, order) ==
    LET r == get_type(h, rs, h[p].kids[1], st, depth, order)
    IN  IF r.t \in Exceptions THEN Ret(r.st, r.t)
        ELSE IF h[p].revtree # None
        THEN Ret(r.st, IF r.t = None \/ ~IsASTNode(r.t) THEN "AssertionError"
                       ELSE common_ancestor({r.t, h[p].revtree}))
        ELSE Ret(r.st, list_type(r.t))

Opt_get_type(h, rs, p, st, depth, order) ==
    IF h[p].booleanize THEN Ret(st, "BoolType")
    ELSE LET r == get_type(h, rs, h[p].kids[1], st, depth, order)
         IN  Ret(r.st, r.t)

Extract_get_type(h, rs, p, st, depth, order) ==
    LET row == h[p].kids[1]
    IN  IF h[p].index >= Len(h[row].kids) THEN Ret(st, "IndexError")
        ELSE LET r == get_type(h, rs, h[row].kids[h[p].index + 1], st, depth, order)
             IN  Ret(r.st, r.t)

Null_get_type(h, rs, p, st, depth, order) ==
    IF h[p].tparser # 0
    THEN LET r == get_type(h, rs, h[p].tparser, st, depth, order)
         IN  Ret(r.st, r.t)
    ELSE Ret(st, h[p].typ)

get_type(h, rs, p, st, depth, order) ==
    IF depth = 0 THEN Ret(st, "RuntimeError")
    ELSE CASE h[p].kind = "Tok" -> Ret(st, "Token")
           [] h[p].kind = "Or" -> Or_get_type(h, rs, p, st, depth - 1, order)
           [] h[p].kind = "Row" -> Ret(st, None)
           [] h[p].kind = "List" -> List_get_type(h, rs, p, st, depth - 1, order)
           [] h[p].kind = "Opt" -> Opt_get_type(h, rs, p, st, depth - 1, order)
           [] h[p].kind = "Extract" -> Extract_get_type(h, rs, p, st, depth - 1, order)
           [] h[p].kind = "Discard" -> Ret(st, None)
           [] h[p].kind = "Defer" -> Defer_get_type(h, rs, p, st, depth - 1, order)
           [] h[p].kind = "Transform" -> Ret(st, h[p].typ)
           [] h[p].kind = "Null" -> Null_get_type(h, rs, p, st, depth - 1, order)
           [] h[p].kind = "Enum" -> Ret(st, h[p].typ)

\* ------------------------------------------------------------ code emission
\* langkit.common.gen_name / gen_names: a name that no other call returns.
\* A name is its base, the slot for "row_subres_<slot>", and the serial
\* number the counter gave it.
VarName(base, slot, id) == [base |-> base, slot |-> slot, id |-> id]
NoName == VarName("", 0, 0)

\* Parser.gen_fn_name: gen_name(self._name + self.base_name).  The serial
\* is the identity of the parser the name was generated for.
FnName(name, base_name, id) == [name |-> name, base |-> base_name, id |-> id]

RECURSIVE set_name(_, _, _, _)
RECURSIVE set_name_children(_, _, _, _, _)

\* for c in self.children(): if not c._name and not isinstance(c, Defer)
set_name_children(h, st, ch, i, name) ==
    IF i > Len(ch) THEN st
    ELSE LET c == ch[i]
             st1 == IF st[c].gen_fn_name.name = "" /\ h[c].kind # "Defer"
                    THEN set_name(h, st, c, name)
                    ELSE st
         IN  set_name_children(h, st1, ch, i + 1, name)

\* Parser.set_name
set_name(h, st, p, name) ==
    [set_name_children(h, st, Children(h, p), 1, name)
        EXCEPT ![p].gen_fn_name = FnName(name, h[p].kind, p)]

RECURSIVE set_grammar(_, _, _, _)
RECURSIVE set_grammar_children(_, _, _, _, _)

\* for c in self.children(): c.set_grammar(grammar)
set_grammar_children(h, st, ch, i, grammar) ==
    IF i > Len(ch) THEN st
    ELSE set_grammar_children(h, set_grammar(h, st, ch[i], grammar), ch, i + 1, grammar)

\* Parser.set_grammar
set_grammar(h, st, p, grammar) ==
    [set_grammar_children(h, st, Children(h, p), 1, grammar) EXCEPT ![p].grammar = grammar]

\* The grammar object: its rules, the parser objects, and the exception a
\* call on it raised.
GrammarState(rs, st) == [rules |-> rs, obj |-> st, exc |-> None]

\* one iteration of Grammar.add_rules without the assert on the name
add_rule_unchecked(g, h, name, rule) ==
    [g EXCEPT !.rules = [n \in DOMAIN g.rules \cup {name} |->
                            IF n = name THEN rule ELSE g.rules[n]],
              !.obj = [set_grammar(h, set_name(h, g.obj, rule, name), rule, "G")
                          EXCEPT ![rule].is_root = TRUE]]

\* one iteration of Grammar.add_rules: for name, rule in kwargs.items()
add_rule(g, h, name, rule) ==
    IF name \in DOMAIN g.rules THEN [g EXCEPT !.exc = "AssertionError"]
    ELSE [g EXCEPT !.rules = g.rules @@ (name :> rule),
                   !.obj = [set_grammar(h, set_name(h, g.obj, rule, name), rule, "G")
                               EXCEPT ![rule].is_root = TRUE]]

\* Parser.discard() with the override in Tok only
discard_not_overridden(h, p) == h[p].kind = "Tok" /\ ~h[p].keep

\* Parser.discard() and its overrides in Tok and Discard
discard(h, p) ==
    CASE h[p].kind = "Tok" -> ~h[p].keep
      [] h[p].kind = "Discard" -> TRUE
      [] OTHER -> FALSE

\* One call of render(template, _self=..., args=...): the template and the
\* values it is given.  The code of a parser is the sequence of the
\* renderings it is made of, those of its sub-parsers first.
Rendered(template, self, args) == [template |-> template, self |-> self, args |-> args]

\* the default of the argument pos_name of the emission routines
DefaultPos == VarName("pos", 0, 0)

\* a variable declaration (name, type) of ParserCodeContext.var_defs
Decl(name, type) == [name |-> name, type |-> type]

\* The state an emission call works on: the heap `obj`, the compile
\* context (fns, generated_parsers), the gen_name counter, the calls of
\* assign_wrapper, the argument pos_name of the call, and what the call
\* returns: the ParserCodeContext (pos_var_name, res_var_name, code,
\* var_defs), the type a get_type call returned (t), or the exception
\* raised (exc).
EmitState(st, c, b) ==
    [obj |-> st, fns |-> c.fns, added |-> c.added,
     generated_parsers |-> c.generated_parsers, next_id |-> c.next_id, bindings |-> b, pos_name |-> DefaultPos,
     code |-> <<>>, var_defs |-> <<>>, pos_var_name |-> NoName,
     res_var_name |-> NoName, t |-> None, exc |-> None]

Raise(cx, e) ==
    [cx EXCEPT !.exc = e, !.code = <<>>, !.var_defs = <<>>,
               !.pos_var_name = NoName, !.res_var_name = NoName]

\* a call of get_type() made by an emission routine; the type returned
\* is left in t
Typed_by(cx, r) ==
    IF r.t \in Exceptions THEN Raise([cx EXCEPT !.obj = r.st], r.t)
    ELSE [cx EXCEPT !.obj = r.st, !.t = r.t]

TypeFor(cx, h, rs, p, depth, order) ==
    IF cx.exc # None THEN cx
    ELSE Typed_by(cx, get_type(h, rs, p, cx.obj, depth, order))

\* Row.assign_wrapper(parser), called from `during` (the constructor of the
\* wrapper, as_bool, or its generate_code).  The call is recorded with its
\* outcome: "ok", "rejected" when the assert fails, or the exception that
\* parser.get_type() raised.
\* self.typ = parser.get_type(): c is the state after parser.get_type()
Bound_to(c, row, call) ==
    IF c.exc # None THEN [c EXCEPT !.bindings = Append(@, [call EXCEPT !.out = c.exc])]
    ELSE [c EXCEPT !.obj[row].typ = c.t,
                   !.bindings = Append(@, [call EXCEPT !.out = "ok"])]

assign_wrapper(cx, h, rs, row, parser, during, depth, order) ==
    LET call(out) == [row |-> row, wrapper |-> parser, kind |-> h[parser].kind,
                      during |-> during, out |-> out]
    IN  IF cx.exc # None THEN cx
        ELSE IF cx.obj[row].is_root \/ cx.obj[row].typ # None
        THEN Raise([cx EXCEPT !.bindings = Append(@, call("rejected"))],
                   "AssertionError")
        ELSE Bound_to(TypeFor(cx, h, rs, parser, depth, order), row, call("ok"))

\* self.args of Row.generate_code: the sub-results of the sub-parsers that
\* do not discard their match
RECURSIVE Row_args(_, _, _, _)
\* the same without the filter on discard()
Row_args_unfiltered(h, ps, subresults, i) == subresults
Row_args(h, ps, subresults, i) ==
    IF i > Len(ps) THEN <<>>
    ELSE (IF discard(h, ps[i]) THEN <<>> ELSE <<subresults[i]>>)
         \o Row_args(h, ps, subresults, i + 1)

\* Parser.compile, Parser.gen_code_or_fncall and the generate_code of
\* every Parser subclass.  depth counts the Python frames left.  A routine
\* given a state in which an exception is raised (exc) returns it as it
\* is: the statements after the one that raised do not run.
RECURSIVE compile(_, _, _, _, _, _)
RECURSIVE gen_code_or_fncall(_, _, _, _, _, _)
RECURSIVE generate_code(_, _, _, _, _, _)
RECURSIVE Or_results(_, _, _, _, _, _, _, _)
RECURSIVE Row_submatches(_, _, _, _, _, _, _, _)

\* a call of gen_name / gen_names: the counter moves on, and the names
\* made have the serial cx.next_id - 1
NewId(cx) == IF cx.exc # None THEN cx ELSE [cx EXCEPT !.next_id = @ + 1]

\* GeneratedParser(name, spec, body), the spec and the body being renderings
\* of the ParserCodeContext that generate_code returned
GeneratedParser(name, parser_context) ==
    [name |-> name, body |-> parser_context.code,
     pos_var_name |-> parser_context.pos_var_name,
     res_var_name |-> parser_context.res_var_name,
     var_defs |-> parser_context.var_defs]

\* the same, the new unit put in front of the list
compile_append_front(cx, fn, pos_name) ==
    IF cx.exc # None THEN cx
    ELSE [cx EXCEPT !.generated_parsers = <<GeneratedParser(fn, cx)>> \o @,
                    !.pos_name = pos_name,
                    !.code = <<>>, !.var_defs = <<>>, !.pos_var_name = NoName,
                    !.res_var_name = NoName]

\* get_context().generated_parsers.append(GeneratedParser(...))
compile_append(cx, fn, pos_name) ==
    IF cx.exc # None THEN cx
    ELSE [cx EXCEPT !.generated_parsers = Append(@, GeneratedParser(fn, cx)),
                    !.pos_name = pos_name,
                    !.code = <<>>, !.var_defs = <<>>, !.pos_var_name = NoName,
                    !.res_var_name = NoName]

\* get_context().fns.add(self.gen_fn_name)
Marked(cx, fn) ==
    IF cx.exc # None THEN cx
    ELSE [cx EXCEPT !.fns = @ \cup {fn}, !.added = Append(@, fn)]

\* Parser.compile with the identifier added to fns after the body is
\* emitted
compile_marked_late(cx, h, rs, p, depth, order) ==
    IF cx.exc # None THEN cx
    ELSE IF depth = 0 THEN Raise(cx, "RuntimeError")
    ELSE IF cx.obj[p].gen_fn_name \in cx.fns
    THEN [cx EXCEPT !.code = <<>>, !.var_defs = <<>>, !.pos_var_name = NoName,
                    !.res_var_name = NoName]
    ELSE compile_append(
            Marked(generate_code([cx EXCEPT !.pos_name = DefaultPos],
                                 h, rs, p, depth - 1, order),
                   cx.obj[p].gen_fn_name),
            cx.obj[p].gen_fn_name, cx.pos_name)

\* Parser.compile without the test on get_context().fns
compile_unguarded(cx, h, rs, p, depth, order) ==
    IF cx.exc # None THEN cx
    ELSE IF depth = 0 THEN Raise(cx, "RuntimeError")
    ELSE compile_append(
            generate_code([Marked(cx, cx.obj[p].gen_fn_name) EXCEPT
                                     !.pos_name = DefaultPos],
                          h, rs, p, depth - 1, order),
            cx.obj[p].gen_fn_name, cx.pos_name)

compile(cx, h, rs, p, depth, order) ==
    IF cx.exc # None THEN cx
    ELSE IF depth = 0 THEN Raise(cx, "RuntimeError")
    \* Don't emit code twice for the same parser
    ELSE IF cx.obj[p].gen_fn_name \in cx.fns
    THEN [cx EXCEPT !.code = <<>>, !.var_defs = <<>>, !.pos_var_name = NoName,
                    !.res_var_name = NoName]
    ELSE compile_append(
            generate_code([Marked(cx, cx.obj[p].gen_fn_name) EXCEPT
                                     !.pos_name = DefaultPos],
                          h, rs, p, depth - 1, order),
            cx.obj[p].gen_fn_name, cx.pos_name)

\* the ParserCodeContext of a call to the function of root parser p
fncall(cx, p) ==
    IF cx.exc # None THEN cx
    ELSE [cx EXCEPT !.code = <<Rendered("fn_call_ada", p, <<>>)>>,
                    !.pos_var_name = VarName("fncall_pos", 0, cx.next_id - 1),
                    !.res_var_name = VarName("fncall_res", 0, cx.next_id - 1),
                    !.var_defs = <<Decl(VarName("fncall_pos", 0, cx.next_id - 1), "Token"),
                                   Decl(VarName("fncall_res", 0, cx.next_id - 1), cx.t)>>]

gen_code_or_fncall(cx, h, rs, p, depth, order) ==
    IF cx.exc # None THEN cx
    ELSE IF depth = 0 THEN Raise(cx, "RuntimeError")
    ELSE IF cx.obj[p].is_root
    THEN \* self.compile(); gen_names(..); var_defs: (res, self.get_type())
         fncall(TypeFor(NewId(compile(cx, h, rs, p, depth - 1, order)),
                        h, rs, p, depth - 1, order),
                p)
    ELSE generate_code(cx, h, rs, p, depth - 1, order)

\* a ParserCodeContext with its pos_var_name set
WithPos(c, pos_var) ==
    IF c.exc # None THEN c ELSE [c EXCEPT !.pos_var_name = pos_var]

\* a ParserCodeContext with declarations put before and after its var_defs
Declare(c, before, after) ==
    IF c.exc # None THEN c ELSE [c EXCEPT !.var_defs = before \o @ \o after]

\* back in the caller, whose argument pos_name is in scope again
Restore(c, pos_name) ==
    IF c.exc # None THEN c ELSE [c EXCEPT !.pos_name = pos_name]

\* the code and the declarations of a parser put after those of the
\* ParserCodeContext `prev` made before it
After(prev, cx) ==
    IF cx.exc # None THEN cx
    ELSE [cx EXCEPT !.code = prev.code \o @, !.var_defs = prev.var_defs \o @]

\* what a loop over sub-parsers has gathered: the code and the declarations
\* of the sub-parsers done (and the names t_env.subresults of a Row)
Gathered(code, var_defs, subresults) ==
    [code |-> code, var_defs |-> var_defs, subresults |-> subresults]

\* results = [m.gen_code_or_fncall(pos_name) for m in self.parsers]
Or_next(c, h, rs, ps, i, depth, order, acc) ==
    Or_results(c, h, rs, ps, i + 1, depth, order,
               Gathered(acc.code \o c.code, acc.var_defs \o c.var_defs, <<>>))

Or_results(cx, h, rs, ps, i, depth, order, acc) ==
    IF cx.exc # None THEN cx
    ELSE IF i > Len(ps) THEN [cx EXCEPT !.code = acc.code, !.var_defs = acc.var_defs]
    ELSE Or_next(gen_code_or_fncall(cx, h, rs, ps[i], depth, order),
                 h, rs, ps, i, depth, order, acc)

\* decls += t_subenv.parser_context.var_defs;
\* if not parser.discard(): decls.append((subresult, parser.get_type()))
Row_decls(c, h, rs, ps, i, depth, order, acc) ==
    Row_submatches(c, h, rs, ps, i + 1, depth, order,
                   Gathered(acc.code \o c.code,
                            acc.var_defs \o c.var_defs
                               \o (IF discard(h, ps[i]) THEN <<>>
                                   ELSE <<Decl(acc.subresults[i], c.t)>>),
                            acc.subresults))

\* the loop of Row.generate_code over zip(self.parsers, subresults)
Row_next(c, h, rs, ps, i, depth, order, acc) ==
    Row_decls(IF discard(h, ps[i]) THEN c
              ELSE TypeFor(c, h, rs, ps[i], depth, order),
              h, rs, ps, i, depth, order, acc)

Row_submatches(cx, h, rs, ps, i, depth, order, acc) ==
    IF cx.exc # None THEN cx
    ELSE IF i > Len(ps) THEN [cx EXCEPT !.code = acc.code, !.var_defs = acc.var_defs]
    ELSE Row_next(gen_code_or_fncall(cx, h, rs, ps[i], depth, order),
                  h, rs, ps, i, depth, order, acc)

\* the ParserCodeContext a generate_code returns: the code of the
\* sub-parsers, then the rendering of its own template
Render(cx, template, p, args, res_var) ==
    IF cx.exc # None THEN cx
    ELSE [cx EXCEPT !.code = @ \o <<Rendered(template, p, args)>>,
                    !.res_var_name = res_var]

Tok_generate_code(cx, h, rs, p, depth, order) ==
    Render(Declare(WithPos([NewId(cx) EXCEPT !.code = <<>>, !.var_defs = <<>>],
                           VarName("tk_pos", 0, cx.next_id)),
                   <<Decl(VarName("tk_pos", 0, cx.next_id), "Token"),
                     Decl(VarName("tk_res", 0, cx.next_id), "Token")>>, <<>>),
           "tok_code_ada", p, <<>>, VarName("tk_res", 0, cx.next_id))

\* var_defs: [(pos, Token), (res, self.get_type())], then those of the
\* sub-parsers
Or_decls(c, id) ==
    Declare(WithPos(c, VarName("or_pos", 0, id)),
            <<Decl(VarName("or_pos", 0, id), "Token"),
              Decl(VarName("or_res", 0, id), c.t)>>, <<>>)

\* typ=decl_type(self.get_type())
Or_generate_code(cx, h, rs, p, depth, order) ==
    Render(Or_decls(TypeFor(Or_results(NewId(cx), h, rs, h[p].kids, 1, depth, order,
                                       Gathered(<<>>, <<>>, <<>>)),
                            h, rs, p, depth, order),
                    cx.next_id),
           "or_code_ada", p, <<>>, VarName("or_res", 0, cx.next_id))

\* t_env.subresults
Row_subresults(h, p, id) ==
    [i \in 1..Len(h[p].kids) |-> VarName("row_subres", i - 1, id)]

Row_generate_code(cx, h, rs, p, depth, order) ==
    Render(Restore(
               WithPos(
                   Row_submatches(
                       [NewId(cx) EXCEPT
                           !.obj[p].args = Row_args(h, h[p].kids,
                                                    Row_subresults(h, p, cx.next_id), 1),
                           !.obj[p].allargs = Row_subresults(h, p, cx.next_id),
                           !.pos_name = VarName("row_pos", 0, cx.next_id)],
                       h, rs, h[p].kids, 1, depth, order,
                       Gathered(<<>>, <<Decl(VarName("row_pos", 0, cx.next_id), "Token")>>,
                                Row_subresults(h, p, cx.next_id))),
                   VarName("row_pos", 0, cx.next_id)),
               cx.pos_name),
           "row_code_ada", p, Row_subresults(h, p, cx.next_id),
           VarName("row_res", 0, cx.next_id))

\* self.get_type().add_to_context()
List_add_to_context(cx) ==
    IF cx.exc # None THEN cx
    ELSE IF cx.t = None THEN Raise(cx, "AttributeError")
    ELSE cx

\* sep_context = self.sep.gen_code_or_fncall(cpos) if self.sep else ...
List_sep(c, h, rs, p, depth, order) ==
    IF c.exc # None \/ h[p].sep = 0 THEN c
    ELSE After(c, gen_code_or_fncall(c, h, rs, h[p].sep, depth, order))

\* decls = [(pos, Token), (res, self.get_type()), (cpos, Token)]
\*         + parser_context.var_defs + sep_context.var_defs
List_decls(c, id) ==
    Declare(WithPos(c, VarName("lst_pos", 0, id)),
            <<Decl(VarName("lst_pos", 0, id), "Token"),
              Decl(VarName("lst_res", 0, id), c.t),
              Decl(VarName("lst_cpos", 0, id), "Token")>>, <<>>)

\* cpos = gen_name("lst_cpos"): the position given to the element and to
\* the separator
List_cpos(c) ==
    IF c.exc # None THEN c
    ELSE [c EXCEPT !.next_id = @ + 1, !.pos_name = VarName("lst_cpos", 0, c.next_id)]

List_generate_code(cx, h, rs, p, depth, order) ==
    Render(Restore(
               List_decls(
                   TypeFor(List_sep(gen_code_or_fncall(
                                        List_cpos(List_add_to_context(
                                            TypeFor(cx, h, rs, p, depth, order))),
                                        h, rs, h[p].kids[1], depth, order),
                                    h, rs, p, depth, order),
                           h, rs, p, depth, order),
                   cx.next_id),
               cx.pos_name),
           "list_code_ada", p, <<>>, VarName("lst_res", 0, cx.next_id))

\* res_var_name=(t_env.bool_res if self._booleanize else ...);
\* var_defs=parser_context.var_defs + ([(t_env.bool_res, BoolType)] if ...)
Opt_render(c, h, p) ==
    Render(Declare(NewId(c), <<>>,
                   IF h[p].booleanize
                   THEN <<Decl(VarName("opt_bool_res", 0, c.next_id), "BoolType")>>
                   ELSE <<>>),
           "opt_code_ada", p, <<>>,
           IF h[p].booleanize THEN VarName("opt_bool_res", 0, c.next_id)
           ELSE c.res_var_name)

Opt_generate_code(cx, h, rs, p, depth, order) ==
    Opt_render(gen_code_or_fncall(cx, h, rs, h[p].kids[1], depth, order), h, p)

\* res_var_name=self.parser.allargs[self.index]
Extract_result(c, h, p) ==
    IF c.exc # None THEN c
    ELSE IF h[p].index >= Len(c.obj[h[p].kids[1]].allargs) THEN Raise(c, "IndexError")
    ELSE [c EXCEPT !.res_var_name = c.obj[h[p].kids[1]].allargs[h[p].index + 1]]

Extract_generate_code(cx, h, rs, p, depth, order) ==
    Extract_result(
        gen_code_or_fncall(
            assign_wrapper(cx, h, rs, h[p].kids[1], p, "generate_code", depth, order),
            h, rs, h[p].kids[1], depth, order),
        h, p)

Discard_generate_code(cx, h, rs, p, depth, order) ==
    gen_code_or_fncall(cx, h, rs, h[p].kids[1], depth, order)

\* self.parser of a Defer, under an emission call
Defer_resolve(cx, d) ==
    IF d.parser = 0 THEN Raise(cx, "KeyError") ELSE [cx EXCEPT !.obj = d.st]

Defer_generate_code(cx, h, rs, p, depth, order) ==
    gen_code_or_fncall(Defer_resolve(cx, Defer_parser(rs, h, p, cx.obj)), h, rs,
                       Defer_parser(rs, h, p, cx.obj).parser, depth, order)

\* args=(self.parser.args if isinstance(self.parser, Row) else
\*       [parser_context.res_var_name]);
\* var_defs=parser_context.var_defs + [(t_env.res, self.get_type())]
Transform_render(c, h, p) ==
    Render(Declare(NewId(c), <<>>,
                   <<Decl(VarName("transform_res", 0, c.next_id), h[p].typ)>>),
           "transform_code_ada", p,
           IF h[h[p].kids[1]].kind = "Row" THEN c.obj[h[p].kids[1]].args
           ELSE <<c.res_var_name>>,
           VarName("transform_res", 0, c.next_id))

Transform_generate_code(cx, h, rs, p, depth, order) ==
    Transform_render(
        gen_code_or_fncall(
            IF h[h[p].kids[1]].kind = "Row"
            THEN assign_wrapper(cx, h, rs, h[p].kids[1], p, "generate_code", depth, order)
            ELSE cx,
            h, rs, h[p].kids[1], depth, order),
        h, p)

\* ParserCodeContext(pos_name, res, code, [(res, self.get_type())])
Null_result(c, p) ==
    Render(Declare(WithPos([NewId(c) EXCEPT !.code = <<>>, !.var_defs = <<>>],
                           c.pos_name),
                   <<Decl(VarName("null_res", 0, c.next_id), c.t)>>, <<>>),
           "null_code_ada", p, <<>>, VarName("null_res", 0, c.next_id))

Null_generate_code(cx, h, rs, p, depth, order) ==
    Null_result(TypeFor(cx, h, rs, p, depth, order), p)

\* var_defs=parser_context.var_defs + [(env.res, self.get_type())]
Enum_render(c, h, p) ==
    Render(Declare(NewId(c), <<>>, <<Decl(VarName("enum_res", 0, c.next_id), h[p].typ)>>),
           "enum_code_ada", p, <<>>, VarName("enum_res", 0, c.next_id))

Enum_generate_code(cx, h, rs, p, depth, order) ==
    IF h[p].kids = <<>>
    THEN Enum_render([cx EXCEPT !.code = <<>>, !.var_defs = <<>>,
                                !.pos_var_name = cx.pos_name, !.res_var_name = NoName],
                     h, p)
    ELSE Enum_render(
            gen_code_or_fncall(
                IF h[h[p].kids[1]].kind = "Row"
                THEN assign_wrapper(cx, h, rs, h[p].kids[1], p, "generate_code",
                                    depth, order)
                ELSE cx,
                h, rs, h[p].kids[1], depth, order),
            h, p)

generate_code(cx, h, rs, p, depth, order) ==
    IF cx.exc # None THEN cx
    ELSE IF depth = 0 THEN Raise(cx, "RuntimeError")
    ELSE CASE h[p].kind = "Tok" -> Tok_generate_code(cx, h, rs, p, depth - 1, order)
           [] h[p].kind = "Or" -> Or_generate_code(cx, h, rs, p, depth - 1, order)
           [] h[p].kind = "Row" -> Row_generate_code(cx, h, rs, p, depth - 1, order)
           [] h[p].kind = "List" -> List_generate_code(cx, h, rs, p, depth - 1, order)
           [] h[p].kind = "Opt" -> Opt_generate_code(cx, h, rs, p, depth - 1, order)
           [] h[p].kind = "Extract" -> Extract_generate_code(cx, h, rs, p, depth - 1, order)
           [] h[p].kind = "Discard" -> Discard_generate_code(cx, h, rs, p, depth - 1, order)
           [] h[p].kind = "Defer" -> Defer_generate_code(cx, h, rs, p, depth - 1, order)
           [] h[p].kind = "Transform" -> Transform_generate_code(cx, h, rs, p, depth - 1, order)
           [] h[p].kind = "Null" -> Null_generate_code(cx, h, rs, p, depth - 1, order)
           [] h[p].kind = "Enum" -> Enum_generate_code(cx, h, rs, p, depth - 1, order)

\* ------------------------------------------------------------ field typing
\* The AST node classes declare fields.  len(cls.get_parse_fields(
\* include_inherited=False)): the number of fields a class declares itself.
OwnFieldCount(cls) ==
    CASE cls = "NodeA" -> 1
      [] cls = "NodeA1" -> 1
      [] cls = "NodeB" -> 2
      [] OTHER -> 0

RECURSIVE get_inheritance_chain(_)
\* cls.get_inheritance_chain(): the classes from the root class down to cls
get_inheritance_chain(cls) ==
    IF cls = None THEN <<>> ELSE Append(get_inheritance_chain(ParentOf(cls)), cls)

RECURSIVE SumFields(_, _)
SumFields(chain, i) ==
    IF i > Len(chain) THEN 0 ELSE OwnFieldCount(chain[i]) + SumFields(chain, i + 1)

\* len(cls.get_parse_fields()): the fields of a class, the inherited ones
\* included
FieldCount(cls) == SumFields(get_inheritance_chain(cls), 1)

\* The state a field-typing call works on: the heap `obj` (get_type caches
\* types), the types given to the fields of the classes, the list
\* fields_types being gathered or dispatched, the type a get_type call
\* returned (t), and the exception raised (exc).
FieldState(st, ft) == [obj |-> st, field_types |-> ft, types |-> <<>>, t |-> None, exc |-> None]

\* cls.set_types(types): the types of the fields cls declares itself, one
\* type per field
set_types(s, cls, types) ==
    IF s.exc # None THEN s
    ELSE IF Len(types) # OwnFieldCount(cls) THEN [s EXCEPT !.exc = "AssertionError"]
    ELSE [s EXCEPT !.field_types[cls] = types]

\* a call of get_type() made by a field-typing routine
FieldTyped_by(s, r) ==
    IF r.t \in Exceptions THEN [s EXCEPT !.obj = r.st, !.exc = r.t]
    ELSE [s EXCEPT !.obj = r.st, !.t = r.t]

FieldType(s, h, rs, p, depth, order) ==
    IF s.exc # None THEN s
    ELSE FieldTyped_by(s, get_type(h, rs, p, s.obj, depth, order))

\* fields_types[:n] and fields_types[n:]
Take(types, n) == SubSeq(types, 1, IF n < Len(types) THEN n ELSE Len(types))
Drop(types, n) == SubSeq(types, (IF n < Len(types) THEN n ELSE Len(types)) + 1, Len(types))

RECURSIVE compute_fields_types(_, _, _, _, _, _)
RECURSIVE Parser_compute_fields_types(_, _, _, _, _, _, _)
RECURSIVE Transform_gather(_, _, _, _, _, _, _)
RECURSIVE Transform_dispatch(_, _, _)

\* Parser.compute_fields_types: for child in self.children()
Parser_compute_fields_types(s, h, rs, ch, i, depth, order) ==
    IF s.exc # None \/ i > Len(ch) THEN s
    ELSE Parser_compute_fields_types(
            compute_fields_types(s, h, rs, ch[i], depth, order),
            h, rs, ch, i + 1, depth, order)

Transform_gathered(c) == IF c.exc # None THEN c ELSE [c EXCEPT !.types = Append(@, c.t)]

\* [parser.get_type() for parser in self.parser.parsers if not parser.discard()]
Transform_gather(s, h, rs, ps, i, depth, order) ==
    IF s.exc # None \/ i > Len(ps) THEN s
    ELSE IF discard(h, ps[i]) THEN Transform_gather(s, h, rs, ps, i + 1, depth, order)
    ELSE Transform_gather(Transform_gathered(FieldType(s, h, rs, ps[i], depth, order)),
                          h, rs, ps, i + 1, depth, order)

\* the fields_types of Transform.compute_fields_types, and its assert
Transform_fields_types(s, h, rs, p, depth, order) ==
    IF h[h[p].kids[1]].kind = "Row"
    THEN Transform_gather([s EXCEPT !.types = <<>>], h, rs, h[h[p].kids[1]].kids, 1,
                          depth, order)
    ELSE Transform_gathered(FieldType([s EXCEPT !.types = <<>>], h, rs, h[p].kids[1],
                                      depth, order))

\* assert all(t for t in fields_types)
Transform_checked(s) ==
    IF s.exc # None THEN s
    ELSE IF \E i \in DOMAIN s.types : s.types[i] = None
    THEN [s EXCEPT !.exc = "AssertionError"]
    ELSE s

\* the dispatch without `fields_types = fields_types[fields_count:]`
Transform_dispatch_no_advance(s, chain, i) ==
    IF s.exc # None \/ i > Len(chain) THEN s
    ELSE Transform_dispatch(
            set_types(s, chain[i], Take(s.types, OwnFieldCount(chain[i]))),
            chain, i + 1)

\* for cls in self.typ.get_inheritance_chain(): set_types(fields_types[:n]);
\* fields_types = fields_types[n:]
Transform_dispatch(s, chain, i) ==
    IF s.exc # None \/ i > Len(chain) THEN s
    ELSE Transform_dispatch(
            [set_types(s, chain[i], Take(s.types, OwnFieldCount(chain[i])))
                EXCEPT !.types = Drop(s.types, OwnFieldCount(chain[i]))],
            chain, i + 1)

Transform_compute_fields_types(s, h, rs, p, depth, order) ==
    Parser_compute_fields_types(
        Transform_dispatch(
            Transform_checked(Transform_fields_types(s, h, rs, p, depth, order)),
            get_inheritance_chain(h[p].typ), 1),
        h, rs, Children(h, p), 1, depth, order)

\* set_types([first, self.get_type()]): c is the state after the second
\* call of get_type()
List_fold_set(c, first, cls) ==
    IF c.exc # None THEN c ELSE set_types(c, cls, <<first, c.t>>)

\* [self.get_type(), self.get_type()]: c is the state after the first call
\* of get_type(), on parser q
List_fold_second(c, h, rs, q, cls, depth, order) ==
    List_fold_set(FieldType(c, h, rs, q, depth, order), c.t, cls)

\* a fold that gives the element type to the fields of the fold target
List_fold_element_types(s, h, rs, p, depth, order) ==
    IF s.exc # None \/ h[p].revtree = None THEN s
    ELSE IF FieldCount(h[p].revtree) # 2 THEN [s EXCEPT !.exc = "AssertionError"]
    ELSE List_fold_second(FieldType(s, h, rs, h[p].kids[1], depth, order),
                          h, rs, h[p].kids[1], h[p].revtree, depth, order)

\* assert len(self.revtree_class.get_parse_fields()) == 2;
\* self.revtree_class.set_types([self.get_type(), self.get_type()])
List_fold_types(s, h, rs, p, depth, order) ==
    IF s.exc # None \/ h[p].revtree = None THEN s
    ELSE IF FieldCount(h[p].revtree) # 2 THEN [s EXCEPT !.exc = "AssertionError"]
    ELSE List_fold_second(FieldType(s, h, rs, p, depth, order),
                          h, rs, p, h[p].revtree, depth, order)

List_compute_fields_types(s, h, rs, p, depth, order) ==
    List_fold_types(
        Parser_compute_fields_types(s, h, rs, Children(h, p), 1, depth, order),
        h, rs, p, depth, order)

\* Parser.compute_fields_types() and its overrides in List and Transform
compute_fields_types(s, h, rs, p, depth, order) ==
    IF s.exc # None THEN s
    ELSE IF depth = 0 THEN [s EXCEPT !.exc = "RuntimeError"]
    ELSE CASE h[p].kind = "Transform" ->
                 Transform_compute_fields_types(s, h, rs, p, depth - 1, order)
           [] h[p].kind = "List" ->
                 List_compute_fields_types(s, h, rs, p, depth - 1, order)
           [] OTHER ->
                 Parser_compute_fields_types(s, h, rs, Children(h, p), 1, depth - 1, order)

\* ------------------------------------------------------ grammar definition
\* The grammar is defined first and analysed afterwards (the single-pass
\* model of section 5): constructors and add_rules run while no analysis
\* has been made, res.op = "none".
NoRes ==
    [op |-> "none", rule |-> "", node |-> 0, names |-> {}, out |-> "",
     visits |-> <<>>, types |-> {}, computed |-> FALSE, code |-> <<>>,
     parser |-> 0, cached |-> FALSE,
     call |-> [predicate |-> TRUE, severity |-> "error", do_raise |-> TRUE,
               ok_for_codegen |-> FALSE, emitter |-> FALSE]]

\* the grammar is being built: no query or emission call was made yet
Defining == res.op \in {"none", "__or__"} \/ (res.op = "copy_with" /\ res.out = "ok")

Top == stack[Len(stack)]
Pop(n) == SubSeq(stack, 1, Len(stack) - n)
Push(st) == Append(st, Len(nodes) + 1)

\* Parser.__init__: a new object
NewObj(node, id) == [Fresh EXCEPT !.gen_fn_name = FnName("", node.kind, id)]

Alloc(node) ==
    /\ nodes' = Append(nodes, node)
    /\ obj' = Append(obj, NewObj(node, Len(nodes) + 1))

\* A constructor call without parser arguments: Tok(..), Null(..),
\* Enum(None, ..), or G.<rule_name> (Grammar.__getattr__, a Defer).
NewLeaf(leaves, max) ==
    /\ Defining
    /\ Len(nodes) < max
    /\ Len(stack) < MaxStack
    /\ \E leaf \in leaves : Alloc(leaf)
    /\ stack' = Push(stack)
    /\ UNCHANGED <<rules, main, hash_order, res, ctx, bindings, field_types, diagnostics>>

UnaryNode(kind, p) ==
    CASE kind = "Opt" -> Opt(p)
      [] kind = "List" -> List(p, 0, FALSE)
      [] kind = "ListEmptyValid" -> List(p, 0, TRUE)
      [] kind = "Discard" -> Discard(p)
      [] kind = "Transform" -> Transform(p, "NodeA")
      [] kind = "TransformA1" -> Transform(p, "NodeA1")
      [] kind = "TransformB" -> Transform(p, "NodeB")
      [] kind = "ListFoldA" -> ListFold(p, "NodeA")
      [] kind = "ListFoldB" -> ListFold(p, "NodeB")
      [] kind = "Enum" -> Enum(<<p>>, "EnumA")
      [] kind = "Or" -> Or(<<p>>)
      [] kind = "Row1" -> Row(<<p>>)

\* A constructor call with one parser argument.
NewUnary(kinds, max) ==
    /\ Defining
    /\ Len(nodes) < max
    /\ Len(stack) >= 1
    /\ \E kind \in kinds :
          \* Discard(row) binds the Row: see NewWrapper
          /\ kind = "Discard" => nodes[Top].kind # "Row"
          /\ Alloc(UnaryNode(kind, Top))
    /\ stack' = Push(Pop(1))
    /\ UNCHANGED <<rules, main, hash_order, res, ctx, bindings, field_types, diagnostics>>

BinaryNode(kind, p, q) ==
    CASE kind = "Row" -> Row(<<p, q>>)
      [] kind = "Or" -> Or(<<p, q>>)
      [] kind = "ListSep" -> List(p, q, FALSE)

\* A constructor call with two parser arguments.
NewBinary(kinds, max) ==
    /\ Defining
    /\ Len(nodes) < max
    /\ Len(stack) >= 2
    /\ \E kind \in kinds : Alloc(BinaryNode(kind, stack[Len(stack) - 1], Top))
    /\ stack' = Push(Pop(2))
    /\ UNCHANGED <<rules, main, hash_order, res, ctx, bindings, field_types, diagnostics>>

\* Parser.__or__: alternatives.extend(p.parsers) if isinstance(p, Or) else
\* alternatives.append(p)
alternatives_of(h, p) == IF h[p].kind = "Or" THEN h[p].kids ELSE <<p>>

\* Parser.__or__ without the flattening of `other`
Parser_or_nested(h, self, other) == Or(alternatives_of(h, self) \o <<other>>)

\* Parser.__or__(self, other), other a parser: Or(*alternatives)
Parser_or(h, self, other) == Or(alternatives_of(h, self) \o alternatives_of(h, other))

\* the parsers `new` were built by self | other
Ored(new, self, other) ==
    /\ nodes' = nodes \o new
    /\ obj' = obj \o [i \in 1..Len(new) |-> NewObj(new[i], Len(nodes) + i)]
    /\ stack' = <<Len(nodes) + Len(new)>>
    /\ res' = [NoRes EXCEPT !.op = "__or__", !.visits = <<self, other>>,
                            !.parser = Len(nodes) + Len(new)]
    /\ UNCHANGED <<rules, main, hash_order, ctx, bindings, field_types, diagnostics>>

\* p | q for two parsers that were built, and p | 'x' for a parser and a
\* token: resolve(other) is then a new Tok
OrOp(max) ==
    /\ Defining
    /\ \E self \in DOMAIN nodes :
          \/ /\ Len(nodes) < max
             /\ \E other \in DOMAIN nodes :
                   Ored(<<Parser_or(nodes, self, other)>>, self, other)
          \/ /\ Len(nodes) + 1 < max
             /\ Ored(<<Tok(FALSE),
                       Parser_or(Append(nodes, Tok(FALSE)), self, Len(nodes) + 1)>>,
                     self, Len(nodes) + 1)

\* Opt.__getitem__ without its assert
Opt_getitem_unchecked(h, self, index) ==
    [exc |-> None,
     new |-> <<Extract(h[self].kids[1], index), Opt(Len(h) + 1)>>]

\* Opt.__getitem__(self, index): the exception raised and the parsers
\* built, the last one being the parser returned
Opt_getitem(h, self, index) ==
    IF h[h[self].kids[1]].kind # "Row"
    THEN [exc |-> "AssertionError", new |-> <<>>]
    ELSE [exc |-> None,
          new |-> <<Extract(h[self].kids[1], index), Opt(Len(h) + 1)>>]

\* the outcome r of opt[index]
Indexed(r, opt, index) ==
    /\ nodes' = nodes \o r.new
    /\ obj' = obj \o [i \in 1..Len(r.new) |-> NewObj(r.new[i], Len(nodes) + i)]
    /\ stack' = IF r.exc = None THEN <<Len(nodes) + Len(r.new)>> ELSE stack
    /\ res' = [NoRes EXCEPT !.op = "__getitem__", !.node = opt, !.visits = <<index>>,
                            !.parser = IF r.exc = None THEN Len(nodes) + Len(r.new) ELSE 0,
                            !.out = IF r.exc = None THEN "ok" ELSE r.exc]
    /\ UNCHANGED <<rules, main, hash_order, ctx, bindings, field_types, diagnostics>>

\* opt[index] for any Opt that was built
OptGetitem(max) ==
    /\ Defining
    /\ Len(nodes) + 1 < max
    /\ \E opt \in DOMAIN nodes, index \in {0, 1} :
          /\ nodes[opt].kind = "Opt"
          /\ Indexed(Opt_getitem(nodes, opt, index), opt, index)

\* Grammar.add_rules(name=rule) for a name that is not registered yet.
Registered(g) == rules' = g.rules /\ obj' = g.obj

add_rules(names) ==
    /\ Defining
    /\ Len(stack) >= 1
    /\ \E name \in names \ DOMAIN rules :
          Registered(add_rule(GrammarState(rules, obj), nodes, name, Top))
    /\ stack' = Pop(1)
    /\ UNCHANGED <<nodes, main, hash_order, res, ctx, bindings, field_types, diagnostics>>

\* Grammar.add_rules(name=rule) for any name and any parser that was built,
\* a registered one included.  The call is recorded with its outcome.
AddRules(names) ==
    /\ \E name \in names, rule \in DOMAIN nodes :
          /\ Registered(add_rule(GrammarState(rules, obj), nodes, name, rule))
          /\ res' = [NoRes EXCEPT !.op = "add_rules", !.rule = name, !.node = rule,
                                  !.out = IF add_rule(GrammarState(rules, obj), nodes,
                                                      name, rule).exc = None
                                          THEN "ok" ELSE "AssertionError"]
    /\ stack' = <<>>
    /\ UNCHANGED <<nodes, main, hash_order, ctx, bindings, field_types, diagnostics>>

\* Grammar.get_unreferenced_rules()
GetUnreferencedRules ==
    /\ stack = <<>>
    /\ LET r == get_unreferenced_rules(nodes, rules, main)
       IN  res' = [NoRes EXCEPT
                   !.op = "get_unreferenced_rules", !.rule = main,
                   !.names = r.val,
                   !.out = IF r.exc # None THEN r.exc ELSE "ok",
                   !.visits = r.visits]
    /\ UNCHANGED <<nodes, obj, stack, rules, main, hash_order, ctx, bindings, field_types, diagnostics>>

\* rule.is_left_recursive() for a registered rule
IsLeftRecursive ==
    /\ stack = <<>>
    /\ \E rule \in DOMAIN rules :
          res' = [NoRes EXCEPT !.op = "is_left_recursive", !.rule = rule,
                                !.out = is_left_recursive(nodes, rules, rule)]
    /\ UNCHANGED <<nodes, obj, stack, rules, main, hash_order, ctx, bindings, field_types, diagnostics>>

\* always_make_progress(parser) for any parser that was built
AlwaysMakeProgress ==
    /\ \E p \in 1..Len(nodes) :
          res' = [NoRes EXCEPT !.op = "always_make_progress", !.node = p,
                                !.out = IF always_make_progress(nodes, p)
                                        THEN "True" ELSE "False"]
    /\ UNCHANGED <<nodes, obj, stack, rules, main, hash_order, ctx, bindings, field_types, diagnostics>>

\* parser.get_type() for any parser of the grammar
GetType ==
    /\ stack = <<>>
    /\ \E p \in 1..Len(nodes) :
          LET r == get_type(nodes, rules, p, obj, RecursionLimit, hash_order)
          IN  /\ obj' = r.st
              /\ res' = [NoRes EXCEPT
                    !.op = "get_type", !.node = p, !.out = r.t, !.types = r.types,
                    !.computed = (nodes[p].kind = "Or" /\ obj[p].cached_type = None
                                  /\ ~obj[p].is_processing_type)]
    /\ UNCHANGED <<nodes, stack, rules, main, hash_order, ctx, bindings, field_types, diagnostics>>

\* d.parser for a forward reference d: the use of a Defer.  The call is
\* recorded with the parser it returned and with whether d had one already.
DeferParser ==
    /\ stack = <<>>
    /\ \E d \in 1..Len(nodes) :
          /\ nodes[d].kind = "Defer"
          /\ obj' = Defer_parser(rules, nodes, d, obj).st
          /\ res' = [NoRes EXCEPT
                    !.op = "parser", !.node = d,
                    !.parser = Defer_parser(rules, nodes, d, obj).parser,
                    !.out = IF Defer_parser(rules, nodes, d, obj).parser = 0
                            THEN "KeyError" ELSE "ok",
                    !.cached = obj[d].parser_ # 0]
    /\ UNCHANGED <<nodes, stack, rules, main, hash_order, ctx, bindings, field_types, diagnostics>>

\* the orders in which a Python set of types may be iterated
TypeOrders == {<<"EnumA", "EnumB">>, <<"EnumB", "EnumA">>}

InitGrammar ==
    /\ nodes = <<>>
    /\ obj = <<>>
    /\ stack = <<>>
    /\ rules = <<>>
    /\ main = "S"
    /\ hash_order \in TypeOrders
    /\ res = NoRes
    /\ ctx = [fns |-> {}, added |-> <<>>, generated_parsers |-> <<>>, next_id |-> 0]
    /\ bindings = <<>>
    /\ field_types = [cls \in ASTTypes |-> None]
    /\ diagnostics = [has_pending_error |-> FALSE, printed |-> 0]

\* ---- reachability of rules: grammars over the rules S, A, B
ReachLeaves == {Tok(FALSE)} \cup {Defer(r) : r \in RuleNames}
ReachUnary == {"Opt", "Enum"}
ReachBinary == {"Row", "ListSep"}

NextReach ==
    \/ NewLeaf(ReachLeaves, MaxNodes)
    \/ NewUnary(ReachUnary, MaxNodes)
    \/ NewBinary(ReachBinary, MaxNodes)
    \/ add_rules(RuleNames)
    \/ GetUnreferencedRules

SpecReach == InitGrammar /\ [][NextReach]_vars

\* ---- left recursion: one rule S whose tree may refer to S or to A
LRLeaves == {Tok(FALSE), Null("NodeA"), Defer("S"), Defer("A"), Enum(<<>>, "EnumA")}
LRUnary == {"Opt", "List", "ListEmptyValid", "Transform", "Enum"}
LRBinary == {"Row", "Or"}

NextLR ==
    \/ NewLeaf(LRLeaves, MaxNodes)
    \/ NewUnary(LRUnary, MaxNodes)
    \/ NewBinary(LRBinary, MaxNodes)
    \/ add_rules({"S"})
    \/ IsLeftRecursive

SpecLR == InitGrammar /\ [][NextLR]_vars

\* ---- progress: parsers made of tokens, null matches, optionals, lists,
\* discards and sequences
ProgressLeaves == {Tok(FALSE), Null("NodeA")}
ProgressUnary == {"Opt", "List", "ListEmptyValid", "Discard"}

NextProgress ==
    \/ NewLeaf(ProgressLeaves, MaxProgressNodes)
    \/ NewUnary(ProgressUnary, MaxProgressNodes)
    \/ NewBinary({"Row"}, MaxProgressNodes)
    \/ AlwaysMakeProgress

SpecProgress == InitGrammar /\ [][NextProgress]_vars

\* ---- left recursion across rules: two rules S and A that may refer to
\* themselves and to each other
CycleLeaves == {Tok(FALSE), Defer("S"), Defer("A")}

NextCycle ==
    \/ NewLeaf(CycleLeaves, MaxCycleNodes)
    \/ NewUnary({"Opt"}, MaxCycleNodes)
    \/ NewBinary({"Row", "Or"}, MaxCycleNodes)
    \/ add_rules({"S", "A"})
    \/ IsLeftRecursive

SpecCycle == InitGrammar /\ [][NextCycle]_vars

\* ---- diagnostics
\* class Severity
Severity == {"warning", "error", "non_blocking_error"}

\* check_source_language(predicate, message, severity, do_raise,
\* ok_for_codegen), called when get_context(or_none=True) gives a context
\* that has an emitter (c.emitter) or not: the state of Diagnostics after
\* the call and the exception raised
check_source_language(d, c) ==
    IF ~c.ok_for_codegen /\ c.emitter
    THEN [d |-> d, exc |-> "AssertionError"]
    ELSE IF c.predicate THEN [d |-> d, exc |-> None]
    ELSE IF c.severity = "error" /\ c.do_raise
    THEN [d |-> [d EXCEPT !.printed = @ + 1], exc |-> "DiagnosticError"]
    ELSE IF c.severity = "non_blocking_error"
    THEN [d |-> [d EXCEPT !.printed = @ + 1, !.has_pending_error = TRUE], exc |-> None]
    ELSE [d |-> [d EXCEPT !.printed = @ + 1], exc |-> None]

\* errors_checkpoint() that leaves has_pending_error as it is
errors_checkpoint_sticky(d) ==
    IF d.has_pending_error
    THEN [d |-> d, exc |-> "DiagnosticError"]
    ELSE [d |-> d, exc |-> None]

\* errors_checkpoint()
errors_checkpoint(d) ==
    IF d.has_pending_error
    THEN [d |-> [d EXCEPT !.has_pending_error = FALSE], exc |-> "DiagnosticError"]
    ELSE [d |-> d, exc |-> None]

\* the outcome r of the diagnostics call op
Diagnosed(r, op, c) ==
    /\ diagnostics' = r.d
    /\ res' = [NoRes EXCEPT !.op = op, !.call = c,
                            !.out = IF r.exc = None THEN "ok" ELSE r.exc]
    /\ UNCHANGED <<nodes, obj, stack, rules, main, hash_order, ctx, bindings, field_types>>

CheckSourceLanguage ==
    /\ diagnostics.printed < MaxMessages
    /\ \E predicate \in BOOLEAN, severity \in Severity, do_raise \in BOOLEAN,
          ok_for_codegen \in BOOLEAN, emitter \in BOOLEAN :
          LET c == [predicate |-> predicate, severity |-> severity, do_raise |-> do_raise,
                    ok_for_codegen |-> ok_for_codegen, emitter |-> emitter]
          IN  Diagnosed(check_source_language(diagnostics, c), "check_source_language", c)

ErrorsCheckpoint ==
    Diagnosed(errors_checkpoint(diagnostics), "errors_checkpoint", NoRes.call)

NextDiagnostics ==
    \/ CheckSourceLanguage
    \/ ErrorsCheckpoint

SpecDiagnostics == InitGrammar /\ [][NextDiagnostics]_vars

\* ---- type inference: rules S and A made of alternations, optionals,
\* forward references and typed leaves
TypeLeaves ==
    {Defer("S"), Defer("A"), Null("NodeA"), Null("NodeB"),
     Enum(<<>>, "EnumA"), Enum(<<>>, "EnumB")}
TypeUnary == {"Opt", "Or"}
TypeBinary == {"Or"}

NextType ==
    \/ NewLeaf(TypeLeaves, MaxTypeNodes)
    \/ NewUnary(TypeUnary, MaxTypeNodes)
    \/ NewBinary(TypeBinary, MaxTypeNodes)
    \/ add_rules({"S", "A"})
    \/ GetType

SpecType == InitGrammar /\ [][NextType]_vars

\* ---- order of type inference: two rules S and A, each an alternation of
\* forward references and AST-typed leaves
OrderLeaves == {Defer("S"), Defer("A"), Null("NodeA"), Null("NodeB")}

NextOrder ==
    \/ NewLeaf(OrderLeaves, MaxOrderNodes)
    \/ NewBinary({"Or"}, MaxOrderNodes)
    \/ add_rules({"S", "A"})
    \/ GetType

SpecOrder == InitGrammar /\ [][NextOrder]_vars

\* ---- code emission
\* The Rows a wrapper can be built over: the Row just built, or a Row that
\* the grammar definition kept in a variable after it gave it to a wrapper
\* or to add_rules.
HeldRows ==
    {r \in 1..Len(nodes) :
        /\ nodes[r].kind = "Row"
        /\ \/ stack # <<>> /\ r = Top
           \/ obj[r].is_root
           \/ \E w \in 1..Len(nodes) : r \in SubParsers(nodes, w)}

WrapperNode(kind, row) ==
    CASE kind = "Extract" -> Extract(row, 0)
      [] kind = "Extract1" -> Extract(row, 1)
      [] kind = "Transform" -> Transform(row, "NodeA")
      [] kind = "Discard" -> Discard(row)
      [] kind = "Enum" -> Enum(<<row>>, "EnumA")

\* a constructor that binds the Row whatever the wrapper is
Wrapper_init_eager(cx, h, rs, kind, row, new, order) ==
    assign_wrapper(cx, h, rs, row, new, "__init__", RecursionLimit, order)

\* What the constructor of a wrapper does to the Row it is given:
\* Discard.__init__ calls assign_wrapper; Extract.__init__,
\* Transform.__init__ and Enum.__init__ only store the Row.
Wrapper_init(cx, h, rs, kind, row, new, order) ==
    IF kind = "Discard"
    THEN assign_wrapper(cx, h, rs, row, new, "__init__", RecursionLimit, order)
    ELSE cx

\* Extract(row, 0), Transform(row, ..), Discard(row) or Enum(row, ..)
NewWrapper(kinds, max) ==
    /\ Defining
    /\ \E kind \in kinds, row \in HeldRows :
          LET new == Len(nodes) + 1
              node == WrapperNode(kind, row)
              on_top == stack # <<>> /\ row = Top
              cx == Wrapper_init(EmitState(Append(obj, NewObj(node, new)), ctx, bindings),
                                 Append(nodes, node), rules, kind, row, new, hash_order)
          IN  /\ cx.exc = None => Len(nodes) < max
              /\ on_top \/ Len(stack) < MaxStack
              /\ bindings' = cx.bindings
              /\ IF cx.exc # None
                 THEN \* the constructor raised: no parser is returned
                      /\ res' = [NoRes EXCEPT !.op = "__init__", !.node = row,
                                              !.out = cx.exc]
                      /\ UNCHANGED <<nodes, obj, stack>>
                 ELSE /\ nodes' = Append(nodes, node)
                      /\ obj' = cx.obj
                      /\ stack' = IF on_top THEN Push(Pop(1)) ELSE Push(stack)
                      /\ UNCHANGED res
    /\ UNCHANGED <<rules, main, hash_order, ctx, field_types, diagnostics>>

\* Opt(parser, None): the None entry is dropped, and the Opt is over the
\* anonymous Row(parser)
NewOptRow(max) ==
    /\ Defining
    /\ Len(nodes) + 1 < max
    /\ Len(stack) >= 1
    /\ nodes' = nodes \o <<Row(<<Top>>), OptOverRow(Len(nodes) + 1)>>
    /\ obj' = obj \o <<NewObj(Row(<<Top>>), Len(nodes) + 1),
                       NewObj(OptOverRow(Len(nodes) + 1), Len(nodes) + 2)>>
    /\ stack' = Append(Pop(1), Len(nodes) + 2)
    /\ UNCHANGED <<rules, main, hash_order, res, ctx, bindings, field_types, diagnostics>>

\* opt.as_bool() on the Opt just built: a copy of it (copy_with) that
\* returns a boolean, bound to the anonymous Row if there is one
as_bool(max) ==
    /\ Defining
    /\ Len(stack) >= 1
    /\ nodes[Top].kind = "Opt"
    /\ LET new == Len(nodes) + 1
           node == [nodes[Top] EXCEPT !.booleanize = TRUE]
           cx0 == EmitState(Append(obj, obj[Top]), ctx, bindings)
           cx == IF node.contains_anonymous_row
                 THEN assign_wrapper(cx0, Append(nodes, node), rules, node.kids[1], new,
                                     "as_bool", RecursionLimit, hash_order)
                 ELSE cx0
       IN  /\ cx.exc = None => Len(nodes) < max
           /\ bindings' = cx.bindings
           /\ IF cx.exc # None
              THEN /\ res' = [NoRes EXCEPT !.op = "as_bool", !.node = Top, !.out = cx.exc]
                   /\ UNCHANGED <<nodes, obj, stack>>
              ELSE /\ nodes' = Append(nodes, node)
                   /\ obj' = cx.obj
                   /\ stack' = Push(Pop(1))
                   /\ UNCHANGED res
    /\ UNCHANGED <<rules, main, hash_order, ctx, field_types, diagnostics>>

\* Opt.as_bool after new = copy_with(self, _booleanize=True): new is bound
\* to the anonymous Row if there is one
Opt_as_bool(cx, h, rs, new, order) ==
    IF h[new].contains_anonymous_row
    THEN assign_wrapper(cx, h, rs, h[new].kids[1], new, "as_bool", RecursionLimit, order)
    ELSE cx

\* copy_with(self, _booleanize=True) and copy_with(self, _is_error=True):
\* a shallow copy of the Opt with one attribute set
copy_with(node, attr) ==
    IF attr = "_booleanize" THEN [node EXCEPT !.booleanize = TRUE]
    ELSE [node EXCEPT !.is_error = TRUE]

\* the state after opt.as_bool() or opt.error(): cx is the state in which
\* the method ended, with the copy in it
Copied(cx, opt, attr) ==
    /\ bindings' = cx.bindings
    /\ IF cx.exc # None
       THEN /\ res' = [NoRes EXCEPT !.op = "copy_with", !.node = opt,
                                    !.names = {attr}, !.out = cx.exc]
            /\ UNCHANGED <<nodes, stack>>
            \* what the method did before it raised stays done
            /\ obj' = SubSeq(cx.obj, 1, Len(obj))
       ELSE /\ nodes' = Append(nodes, copy_with(nodes[opt], attr))
            /\ obj' = cx.obj
            /\ stack' = <<Len(nodes) + 1>>
            /\ res' = [NoRes EXCEPT !.op = "copy_with", !.node = opt,
                                    !.names = {attr}, !.parser = Len(nodes) + 1,
                                    !.out = "ok"]
    /\ UNCHANGED <<rules, main, hash_order, ctx, field_types, diagnostics>>

\* opt.as_bool() and opt.error() on any Opt that was built
CopyWith(max) ==
    /\ Defining
    /\ Len(nodes) < max
    /\ \E opt \in DOMAIN nodes :
          /\ nodes[opt].kind = "Opt"
          /\ \/ Copied(Opt_as_bool(EmitState(Append(obj, obj[opt]), ctx, bindings),
                                    Append(nodes, copy_with(nodes[opt], "_booleanize")),
                                    rules, Len(nodes) + 1, hash_order),
                        opt, "_booleanize")
             \/ Copied(EmitState(Append(obj, obj[opt]), ctx, bindings), opt, "_is_error")

\* an exception ended the compilation session
Aborted ==
    /\ res.op \in {"__init__", "as_bool", "compile", "gen_code_or_fncall"}
    /\ res.out \in Exceptions

Emitted(cx, op, rule) ==
    /\ obj' = cx.obj
    /\ ctx' = [fns |-> cx.fns, added |-> cx.added,
               generated_parsers |-> cx.generated_parsers,
               next_id |-> cx.next_id]
    /\ bindings' = cx.bindings
    /\ res' = [NoRes EXCEPT !.op = op, !.rule = rule, !.node = rules[rule],
                            !.out = IF cx.exc = None THEN "ok" ELSE cx.exc,
                            !.code = cx.code]
    /\ UNCHANGED <<nodes, stack, rules, main, hash_order, field_types, diagnostics>>

\* rule.compile() for a registered rule
Compile ==
    /\ stack = <<>>
    /\ ~Aborted
    /\ ctx.next_id < MaxIds
    /\ \E rule \in DOMAIN rules :
          Emitted(compile(EmitState(obj, ctx, bindings), nodes, rules, rules[rule],
                          RecursionLimit, hash_order),
                  "compile", rule)

\* rule.gen_code_or_fncall() for a registered rule
GenCodeOrFncall ==
    /\ stack = <<>>
    /\ ~Aborted
    /\ ctx.next_id < MaxIds
    /\ \E rule \in DOMAIN rules :
          Emitted(gen_code_or_fncall(EmitState(obj, ctx, bindings), nodes, rules,
                                     rules[rule], RecursionLimit, hash_order),
                  "gen_code_or_fncall", rule)

EmitLeaves == {Tok(TRUE), Tok(FALSE), Defer("S"), Defer("A"), Null("NodeA")}
EmitUnary == {"Row1", "Opt", "Discard", "List"}
EmitBinary == {"Row", "Or"}
EmitWrappers == {"Extract", "Transform", "Discard", "Enum"}

NextEmit ==
    \/ NewLeaf(EmitLeaves, MaxEmitNodes)
    \/ NewUnary(EmitUnary, MaxEmitNodes)
    \/ NewBinary(EmitBinary, MaxEmitNodes)
    \/ NewWrapper(EmitWrappers, MaxEmitNodes)
    \/ NewOptRow(MaxEmitNodes)
    \/ as_bool(MaxEmitNodes)
    \/ add_rules({"S", "A"})
    \/ Compile
    \/ GenCodeOrFncall

\* no set of types with more than one element is iterated in these grammars
InitEmit == InitGrammar /\ hash_order = <<"EnumA", "EnumB">>

SpecEmit == InitEmit /\ [][NextEmit]_vars

\* ---- Extract: rules made of Rows of tokens, Null parsers, Discards and
\* forward references, and of Extracts over them
ExtractLeaves == {Tok(TRUE), Tok(FALSE), Null("NodeA"), Defer("A")}
ExtractUnary == {"Row1", "Discard"}
ExtractBinary == {"Row"}
ExtractWrappers == {"Extract", "Extract1"}

NextExtract ==
    \/ NewLeaf(ExtractLeaves, MaxEmitNodes)
    \/ NewUnary(ExtractUnary, MaxEmitNodes)
    \/ NewBinary(ExtractBinary, MaxEmitNodes)
    \/ NewWrapper(ExtractWrappers, MaxEmitNodes)
    \/ add_rules({"S", "A"})
    \/ Compile

SpecExtract == InitEmit /\ [][NextExtract]_vars

\* ---- field typing: a rule S made of Rows of typed leaves, Discards,
\* folding Lists and Transforms
\* rule.compute_fields_types() for a registered rule
FieldsTyped(s, rule) ==
    /\ obj' = s.obj
    /\ field_types' = s.field_types
    /\ res' = [NoRes EXCEPT !.op = "compute_fields_types", !.rule = rule,
                            !.node = rules[rule],
                            !.out = IF s.exc = None THEN "ok" ELSE s.exc]
    /\ UNCHANGED <<nodes, stack, rules, main, hash_order, ctx, bindings, diagnostics>>

ComputeFieldsTypes ==
    /\ stack = <<>>
    /\ \E rule \in DOMAIN rules :
          FieldsTyped(compute_fields_types(FieldState(obj, field_types), nodes, rules,
                                           rules[rule], RecursionLimit, hash_order),
                      rule)

FieldLeaves == {Tok(TRUE), Tok(FALSE), Null("NodeA"), Null("NodeB")}
FieldUnary == {"Row1", "Discard", "Transform", "TransformA1", "TransformB",
               "ListFoldA", "ListFoldB"}
FieldBinary == {"Row"}

NextFields ==
    \/ NewLeaf(FieldLeaves, MaxFieldNodes)
    \/ NewUnary(FieldUnary, MaxFieldNodes)
    \/ NewBinary(FieldBinary, MaxFieldNodes)
    \/ add_rules({"S"})
    \/ ComputeFieldsTypes

SpecFields == InitEmit /\ [][NextFields]_vars

\* ---- forward references: rules S and A that refer to themselves and to
\* each other, registered in any order, then used
DeferLeaves == {Tok(TRUE), Defer("S"), Defer("A"), Defer("B")}

NextDefer ==
    \/ NewLeaf(DeferLeaves, MaxDeferNodes)
    \/ NewUnary({"Opt", "Row1"}, MaxDeferNodes)
    \/ NewBinary({"Row", "Or"}, MaxDeferNodes)
    \/ add_rules({"S", "A"})
    \/ GetType
    \/ DeferParser

SpecDefer == InitEmit /\ [][NextDefer]_vars

\* ---- the operator |: alternations built by Or(a, b) and by p | q from
\* tokens
OrLeaves == {Tok(TRUE)}

NextOr ==
    \/ NewLeaf(OrLeaves, MaxOrNodes)
    \/ NewBinary({"Or"}, MaxOrNodes)
    \/ OrOp(MaxOrNodes)

SpecOr == InitEmit /\ [][NextOr]_vars

\* ---- the modes of Opt: as_bool() and error() on Opt(a) and Opt(a, None)
NextOpt ==
    \/ NewLeaf({Tok(TRUE), Tok(FALSE)}, MaxOptNodes)
    \/ NewUnary({"Opt"}, MaxOptNodes)
    \/ NewOptRow(MaxOptNodes)
    \/ CopyWith(MaxOptNodes)

SpecOpt == InitEmit /\ [][NextOpt]_vars

\* ---- indexing: Opts over tokens, Opts and Rows
GetitemLeaves == {Tok(TRUE), Tok(FALSE)}

NextGetitem ==
    \/ NewLeaf(GetitemLeaves, MaxGetitemNodes)
    \/ NewUnary({"Opt", "Row1"}, MaxGetitemNodes)
    \/ NewBinary({"Row"}, MaxGetitemNodes)
    \/ NewOptRow(MaxGetitemNodes)
    \/ OptGetitem(MaxGetitemNodes + 2)

SpecGetitem == InitGrammar /\ [][NextGetitem]_vars

\* ---- rule registration: any sequence of add_rules calls on parsers made
\* of tokens, forward references and Rows
GrammarLeaves == {Tok(TRUE), Defer("A"), Defer("B")}

NextGrammar ==
    \/ NewLeaf(GrammarLeaves, MaxGrammarNodes)
    \/ NewUnary({"Row1", "Opt"}, MaxGrammarNodes)
    \/ NewBinary({"Row"}, MaxGrammarNodes)
    \/ AddRules(RuleNames)

SpecGrammar == InitEmit /\ [][NextGrammar]_vars

\* ======================================================================
\* Properties of Grammar.get_unreferenced_rules
\* ======================================================================
RECURSIVE Descendants(_, _)
\* p and every parser below it, through any field that holds a parser
Descendants(h, p) ==
    {p} \cup UNION {Descendants(h, q) : q \in SubParsers(h, p)}

\* the rule names that forward references in the tree of p name
DeferredNames(h, p) ==
    {h[q].name : q \in {d \in Descendants(h, p) : h[d].kind = "Defer"}}

RECURSIVE ReachableFrom(_, _, _, _)
\* the rules reachable from the names in `seen`, after at most n more rounds
ReachableFrom(h, rs, seen, n) ==
    IF n = 0 THEN seen
    ELSE ReachableFrom(h, rs,
            seen \cup UNION {DeferredNames(h, rs[r]) : r \in seen \cap DOMAIN rs},
            n - 1)

ReachableRules(h, rs, m) == ReachableFrom(h, rs, {m}, Cardinality(RuleNames))

\* C1: get_unreferenced_rules() returns exactly the registered rule names
\* that are not reachable from main_rule_name, a rule being reachable when
\* it is the main rule or a forward reference to it occurs anywhere in the
\* node tree of a reachable rule.
C1_UnreferencedExact ==
    (res.op = "get_unreferenced_rules" /\ res.out = "ok")
        => res.names = (DOMAIN rules) \ ReachableRules(nodes, rules, main)

\* ======================================================================
\* Properties of the left-recursion analysis
\* ======================================================================
RECURSIVE MakesProgress(_, _)
\* the always-makes-progress predicate as section 4.11 defines it: false
\* for Optional and Null-match, for a List true only if it is forced
\* non-empty and its element always makes progress, true otherwise
MakesProgress(h, p) ==
    CASE h[p].kind = "List" -> (~h[p].ev) /\ MakesProgress(h, h[p].kids[1])
      [] h[p].kind \in {"Opt", "Null"} -> FALSE
      [] OTHER -> TRUE

RECURSIVE LeftPaths(_, _, _, _)
\* The paths (sequences of child positions) that lead from p to a forward
\* reference to rule rn while every parser passed on the way, in a
\* Sequence, is outside the set `progress` of the
\* parsers taken to make progress.
LeftPaths(h, p, rn, progress) ==
    LET k == h[p].kids
        below(i) == {<<i>> \o s : s \in LeftPaths(h, k[i], rn, progress)}
    IN  CASE h[p].kind = "Defer" -> IF h[p].name = rn THEN {<<>>} ELSE {}
          [] h[p].kind = "Or" -> UNION {below(i) : i \in 1..Len(k)}
          [] h[p].kind = "Row" ->
                UNION {below(i) : i \in {i \in 1..Len(k) :
                                            \A j \in 1..(i - 1) : k[j] \notin progress}}
          [] OTHER -> UNION {below(i) : i \in 1..Len(k)}

\* C2: R.is_left_recursive() is true iff some path from R's root reaches
\* a forward reference to R without first passing a node guaranteed to
\* consume input.  Stated for the rules whose root is not itself a bare
\* forward reference, and for the calls that return.
C2_LeftRecursiveIffPath ==
    (/\ res.op = "is_left_recursive"
     /\ res.out \in {"True", "False"}
     /\ nodes[rules[res.rule]].kind # "Defer")
        => ((res.out = "True") <=>
              (LET progress == {q \in 1..Len(nodes) : MakesProgress(nodes, q)}
               IN  LeftPaths(nodes, rules[res.rule], res.rule, progress) # {}))

\* a < b in the order in which the analysis tries paths (first alternative
\* first, first slot first)
LexLess(a, b) ==
    \E i \in 1..Len(a) :
        /\ i <= Len(b)
        /\ \A j \in 1..(i - 1) : a[j] = b[j]
        /\ a[i] < b[i]

RECURSIVE NodeAt(_, _, _)
\* the parser a path leads to, from p
NodeAt(h, p, path) ==
    IF path = <<>> THEN p ELSE NodeAt(h, h[p].kids[Head(path)], Tail(path))

\* the parsers a path passes through, p included, its end excluded
PassedBy(h, p, path) ==
    {NodeAt(h, p, SubSeq(path, 1, n)) : n \in 0..(Len(path) - 1)}

\* the left-recursive paths of the rule of the last analysis, as the
\* analysis sees them (with always_make_progress), and the one tried first
AnalysedPaths ==
    LET progress == {q \in 1..Len(nodes) : always_make_progress(nodes, q)}
    IN  LeftPaths(nodes, rules[res.rule], NameOf(nodes, rules[res.rule], res.rule), progress)

FirstPath == CHOOSE a \in AnalysedPaths : \A b \in AnalysedPaths : a = b \/ LexLess(a, b)

\* a List that can match the empty input: empty_valid, or an element that
\* does not always make progress
EmptyMatchingList(h, q) ==
    h[q].kind = "List" /\ (h[q].ev \/ ~always_make_progress(h, h[q].kids[1]))

\* C3 (as claimed): when the left-recursive path of R passes through a
\* List that can match empty input or through an Optional, the analysis
\* is rejected with an assertion failure.
C3_RejectsListAndOptional ==
    (/\ res.op = "is_left_recursive"
     /\ AnalysedPaths # {}
     /\ \E q \in PassedBy(nodes, rules[res.rule], FirstPath) :
            EmptyMatchingList(nodes, q) \/ nodes[q].kind = "Opt")
        => res.out = "AssertionError"

\* C3 (amended): the analysis is rejected exactly when the first
\* left-recursive path it finds passes through a List that can match empty
\* input; otherwise it returns, true when there is a left-recursive path
\* (also one through an Optional) and false when there is none.
C3_RejectsEmptyMatchingList ==
    res.op = "is_left_recursive" =>
        LET through == AnalysedPaths # {} /\
                       \E q \in PassedBy(nodes, rules[res.rule], FirstPath) :
                            EmptyMatchingList(nodes, q)
        IN  /\ (res.out = "AssertionError") <=> through
            /\ (res.out = "True") <=> (AnalysedPaths # {} /\ ~through)

\* a rejected analysis of a rule whose path runs through an empty-valid List
C3_Witness ==
    /\ res.op = "is_left_recursive"
    /\ res.out = "AssertionError"
    /\ \E q \in PassedBy(nodes, rules[res.rule], FirstPath) : nodes[q].ev

\* ======================================================================
\* Properties of type inference
\* ======================================================================
\* the parsers whose type is written in the grammar
TypedLeaf(h, p) == h[p].kind \in {"Tok", "Enum", "Transform"} \/
                   (h[p].kind = "Null" /\ h[p].tparser = 0)
LeafType(h, p) == IF h[p].kind = "Tok" THEN "Token" ELSE h[p].typ

\* the result type of an alternation as section 4.2 states it: the common
\* ancestor when all types are AST node types, else the one type that all
\* alternatives have, else a failure
UnifyStrict(types) ==
    IF \A t \in types : IsASTNode(t) THEN common_ancestor(types)
    ELSE IF Cardinality(types) = 1 THEN CHOOSE t \in types : TRUE
    ELSE "AssertionError"

\* C4: Alternation.get_type: if every alternative's type is an AST-node
\* type the result is their nearest common ancestor; otherwise the result
\* is defined only when all alternatives' types are identical, and type
\* computation fails for any two alternatives with different types.
\* Stated for the alternations whose alternatives all are typed leaves.
C4_AlternationType ==
    (/\ res.op = "get_type"
     /\ res.computed
     /\ \A i \in 1..Len(nodes[res.node].kids) : TypedLeaf(nodes, nodes[res.node].kids[i]))
        => res.out = UnifyStrict({LeafType(nodes, nodes[res.node].kids[i]) :
                                    i \in 1..Len(nodes[res.node].kids)})

\* the parsers whose get_type the get_type of p calls
TypeCallees(h, rs, p) ==
    CASE h[p].kind \in {"Or", "List"} -> {h[p].kids[i] : i \in 1..Len(h[p].kids)}
      [] h[p].kind = "Opt" -> IF h[p].booleanize THEN {} ELSE {h[p].kids[1]}
      [] h[p].kind = "Extract" ->
            LET row == h[p].kids[1]
            IN  IF h[p].index < Len(h[row].kids) THEN {h[row].kids[h[p].index + 1]} ELSE {}
      [] h[p].kind = "Defer" -> IF h[p].name \in DOMAIN rs THEN {rs[h[p].name]} ELSE {}
      [] h[p].kind = "Null" -> IF h[p].tparser # 0 THEN {h[p].tparser} ELSE {}
      [] OTHER -> {}

RECURSIVE CallClosure(_, _, _, _, _)
\* the parsers reached from the set `from` in at most n rounds of calls,
\* calls made by the parsers in `stop` not followed
CallClosure(h, rs, from, stop, n) ==
    IF n = 0 THEN from
    ELSE CallClosure(h, rs,
            from \cup UNION {TypeCallees(h, rs, q) : q \in from \ stop}, stop, n - 1)

\* p lies on a cycle of get_type calls that passes through no alternation
OnOrFreeCycle(h, rs, p) ==
    LET ors == {q \in 1..Len(h) : h[q].kind = "Or"}
    IN  /\ p \notin ors
        /\ p \in CallClosure(h, rs, TypeCallees(h, rs, p) \ ors, ors, Len(h))

\* some cycle of get_type calls that passes through no alternation can be
\* reached from p
ReachesOrFreeCycle(h, rs, p) ==
    \E q \in CallClosure(h, rs, {p}, {}, Len(h)) : OnOrFreeCycle(h, rs, q)

\* C5 (as claimed): Alternation.get_type terminates on every grammar.
C5_TerminatesOnEveryGrammar ==
    (res.op = "get_type" /\ nodes[res.node].kind = "Or") => res.out # "RuntimeError"

\* the alternatives that are a forward reference to the rule `rule`
SelfRefs(h, p, rule) ==
    {i \in 1..Len(h[p].kids) :
        h[h[p].kids[i]].kind = "Defer" /\ h[h[p].kids[i]].name = rule}

\* C5 (amended): get_type terminates when every cycle of get_type calls
\* it can reach passes through an alternation; and the type of an
\* alternation that is a rule, and whose alternatives are forward
\* references to this rule and typed leaves, is the unification of the
\* types of the leaves alone: the re-entrant calls contribute nothing.
C5_TerminatesThroughAlternations ==
    res.op = "get_type" =>
        /\ (~ReachesOrFreeCycle(nodes, rules, res.node)) => res.out # "RuntimeError"
        /\ \A r \in DOMAIN rules :
              LET p == rules[r]
                  k == nodes[p].kids
              IN  (/\ p = res.node
                   /\ res.computed
                   /\ \A i \in 1..Len(k) : i \in SelfRefs(nodes, p, r) \/ TypedLeaf(nodes, k[i]))
                    => res.out = Unify({LeafType(nodes, k[i]) :
                                          i \in (1..Len(k)) \ SelfRefs(nodes, p, r)},
                                       hash_order)

\* an alternation that refers to itself got the type of its other alternative
C5_Witness ==
    /\ res.op = "get_type"
    /\ res.computed
    /\ \E r \in DOMAIN rules :
          /\ rules[r] = res.node
          /\ SelfRefs(nodes, res.node, r) # {}
    /\ res.out \in Types

\* the heap of a session in which no type has been computed yet
NothingCached(st) == [q \in 1..Len(st) |-> [st[q] EXCEPT !.cached_type = None]]

\* C6: the type cached for an alternation is the same whatever the order
\* in which get_type is first invoked on the nodes of the grammar: it is
\* the type that get_type gives when it is invoked on this node first.
\* Stated for the grammars whose forward references all name a rule, and
\* for the nodes on which that first invocation returns a type.
C6_OrderIndependent ==
    (\A q \in 1..Len(nodes) : nodes[q].kind = "Defer" => nodes[q].name \in DOMAIN rules) =>
    \A p \in 1..Len(nodes) :
        LET first == get_type(nodes, rules, p, NothingCached(obj), RecursionLimit, hash_order).t
        IN  (obj[p].cached_type # None /\ first \in Types) => obj[p].cached_type = first

\* ======================================================================
\* Properties of code emission
\* ======================================================================
\* the generated parsers (units) registered under the identifier fn
UnitsNamed(fn) ==
    {i \in DOMAIN ctx.generated_parsers : ctx.generated_parsers[i].name = fn}

\* the places <<unit, position>> of the generated code, and the rendering
\* at a place
Places ==
    UNION {{<<i, k>> : k \in DOMAIN ctx.generated_parsers[i].body} :
              i \in DOMAIN ctx.generated_parsers}
At(pl) == ctx.generated_parsers[pl[1]].body[pl[2]]

\* the places that hold rendering r
PlacesOf(r) == {pl \in Places : At(pl) = r}

\* the places that hold parsing code (not a call) rendered for parser p
InlinePlacesOf(p) ==
    {pl \in Places : At(pl).self = p /\ At(pl).template # "fn_call_ada"}

CallTo(p) == Rendered("fn_call_ada", p, <<>>)

\* C7: within one compilation session, after any sequence of emission
\* calls, each root rule is compiled into a standalone unit exactly once:
\* generated_parsers never holds two units with the same identifier, a
\* rule whose emission was asked for has exactly one unit, the parsing code
\* of a root parser occurs once and only in its own unit, and a reference
\* to a root parser yields only a call of its unit.
C7_CompiledOnce ==
    /\ \A i, j \in DOMAIN ctx.generated_parsers :
          ctx.generated_parsers[i].name = ctx.generated_parsers[j].name => i = j
    /\ \A p \in 1..Len(nodes) :
          obj[p].is_root =>
             /\ (obj[p].gen_fn_name \in ctx.fns /\ ~Aborted)
                   => Cardinality(UnitsNamed(obj[p].gen_fn_name)) = 1
             /\ Cardinality(InlinePlacesOf(p)) <= 1
             /\ \A pl \in InlinePlacesOf(p) :
                   ctx.generated_parsers[pl[1]].name = obj[p].gen_fn_name
    /\ (res.op = "gen_code_or_fncall" /\ res.out = "ok")
          => /\ res.code = <<CallTo(res.node)>>
             /\ Cardinality(UnitsNamed(obj[res.node].gen_fn_name)) = 1

\* a rule that the generated code calls from two places, and that a later
\* emission call referred to again
C7_Witness ==
    \E p \in 1..Len(nodes) :
        /\ obj[p].is_root
        /\ Cardinality(PlacesOf(CallTo(p))) >= 2
        /\ Cardinality(UnitsNamed(obj[p].gen_fn_name)) = 1
        /\ res.op = "gen_code_or_fncall" /\ res.out = "ok" /\ res.node = p

\* the calls of assign_wrapper on Row r, in order
BindingsOf(r) ==
    LET on_r(b) == b.row = r
    IN  SelectSeq(bindings, on_r)

\* C8: a Sequence has at most one wrapper: of the bindings made to the same
\* (non-root) Row, the first succeeds and every later one fails.  Bindings
\* that end with an exception of the wrapper's get_type are left aside.
C8_AtMostOneWrapper ==
    \A r \in 1..Len(nodes) :
        LET calls == BindingsOf(r)
        IN  (/\ nodes[r].kind = "Row"
             /\ ~obj[r].is_root
             /\ \A i \in DOMAIN calls : calls[i].out \in {"ok", "rejected"})
            => \A i \in DOMAIN calls : (calls[i].out = "ok") <=> (i = 1)

\* the wrappers constructed over Row r
WrappersOf(r) ==
    {w \in 1..Len(nodes) :
        /\ nodes[w].kind \in {"Extract", "Transform", "Discard", "Enum"}
        /\ nodes[w].kids = <<r>>}

Discards(q) == (nodes[q].kind = "Tok" /\ ~nodes[q].keep) \/ nodes[q].kind = "Discard"

RECURSIVE KeptNames(_, _, _)
\* the sub-result names of emission `id` of Row r for the slots i.. whose
\* sub-parser does not discard, in slot order
KeptNames(r, id, i) ==
    IF i > Len(nodes[r].kids) THEN <<>>
    ELSE (IF Discards(nodes[r].kids[i]) THEN <<>> ELSE <<VarName("row_subres", i - 1, id)>>)
         \o KeptNames(r, id, i + 1)

KeptCount(r) == Cardinality({i \in 1..Len(nodes[r].kids) : ~Discards(nodes[r].kids[i])})

\* the renderings of transform_code_ada for a Transform over a Row
RowTransforms ==
    {pl \in Places :
        /\ At(pl).template = "transform_code_ada"
        /\ nodes[nodes[At(pl).self].kids[1]].kind = "Row"}

\* C10: after emission, Row.args has exactly one entry per sub-parser whose
\* discard() is false, in slot order, and the args given to the template
\* of a Transform bound to the Row are exactly that list.
C10_KeptSlots ==
    /\ \A r \in 1..Len(nodes) :
          (nodes[r].kind = "Row" /\ obj[r].allargs # <<>>) =>
             /\ Len(obj[r].allargs) = Len(nodes[r].kids)
             /\ Len(obj[r].args) = KeptCount(r)
             /\ \E id \in 0..ctx.next_id : obj[r].args = KeptNames(r, id, 1)
    /\ \A pl \in RowTransforms :
          LET t == At(pl)
              r == nodes[t.self].kids[1]
          IN  /\ Len(t.args) = KeptCount(r)
              /\ \E id \in 0..ctx.next_id : t.args = KeptNames(r, id, 1)

\* code was emitted for a Transform over a Row that keeps one sub-result
\* and drops another
C10_Witness ==
    \E pl \in RowTransforms :
        LET t == At(pl)
            r == nodes[t.self].kids[1]
        IN  /\ KeptCount(r) >= 1
            /\ KeptCount(r) < Len(nodes[r].kids)
            /\ obj[r].args = t.args

\* ======================================================================
\* Properties of Extract
\* ======================================================================
\* this step compiles the rule whose root parser is the Extract p
ExtractStep(p) ==
    /\ nodes[p].kind = "Extract" /\ obj[p].is_root
    /\ res'.op = "compile" /\ res'.node = p
    /\ obj[p].gen_fn_name \notin ctx.fns
    /\ obj[p].gen_fn_name \in ctx'.fns

\* the Row's own emission, once the Extract p is bound to it: what
\* self.parser.gen_code_or_fncall(pos_name) returns in the state in which
\* Extract.generate_code is called by compile
RowEmission(p) ==
    gen_code_or_fncall(
        assign_wrapper([EmitState(obj, ctx, bindings) EXCEPT
                           !.fns = @ \cup {obj[p].gen_fn_name}],
                       nodes, rules, nodes[p].kids[1], p,
                       "generate_code", RecursionLimit - 2, hash_order),
        nodes, rules, nodes[p].kids[1], RecursionLimit - 2, hash_order)

\* the type a get_type call on parser p returns in this state
TypeOf(p) == get_type(nodes, rules, p, obj, RecursionLimit, hash_order).t

\* C11: Extract(seq, i) has the type of the i-th sub-parser of seq, and its
\* emission returns what the emission of seq returns (the same code, the
\* same position variable, the same declarations, no name generated
\* besides) except that the result variable is the sub-result variable of
\* slot i.
C11_ExtractDelegates ==
    [][\A p \in 1..Len(nodes) :
          (ExtractStep(p) /\ res'.out = "ok") =>
             LET own == RowEmission(p)
                 row == nodes[p].kids[1]
                 unit == ctx'.generated_parsers[Len(ctx'.generated_parsers)]
             IN  /\ own.exc = None
                 /\ unit.name = obj[p].gen_fn_name
                 /\ unit.body = own.code
                 /\ unit.pos_var_name = own.pos_var_name
                 /\ unit.var_defs = own.var_defs
                 /\ ctx'.next_id = own.next_id
                 /\ unit.res_var_name = VarName("row_subres", nodes[p].index, ctx.next_id)
                 /\ unit.res_var_name = obj'[row].allargs[nodes[p].index + 1]
                 /\ TypeOf(p) = TypeOf(nodes[row].kids[nodes[p].index + 1])]_vars

\* ======================================================================
\* Properties of field typing
\* ======================================================================
RECURSIVE KeptTypesFrom(_, _)
\* the types of the sub-parsers of Row r from slot i on that do not
\* discard their match, in slot order
KeptTypesFrom(r, i) ==
    IF i > Len(nodes[r].kids) THEN <<>>
    ELSE (IF Discards(nodes[r].kids[i]) THEN <<>> ELSE <<TypeOf(nodes[r].kids[i])>>)
         \o KeptTypesFrom(r, i + 1)

\* the types a Transform gathers: the kept-slot types of the Row it wraps,
\* or the type of the single parser it wraps
GatheredTypes(p) ==
    IF nodes[nodes[p].kids[1]].kind = "Row" THEN KeptTypesFrom(nodes[p].kids[1], 1)
    ELSE <<TypeOf(nodes[p].kids[1])>>

\* the number of fields the classes before chain[i] declare
FieldsBefore(chain, i) == SumFields(SubSeq(chain, 1, i - 1), 1)

RECURSIVE TypingBelow(_)
\* the Transforms and folding Lists below parser p
TypingBelow(p) ==
    UNION {(IF nodes[q].kind = "Transform" \/ nodes[q].revtree # None THEN {q} ELSE {})
              \cup TypingBelow(q) : q \in {nodes[p].kids[i] : i \in DOMAIN nodes[p].kids}}

\* field typing was run on a rule whose root is a parser of this kind, the
\* only one of the rule that types fields
Typed(kind) ==
    /\ res.op = "compute_fields_types"
    /\ nodes[res.node].kind = kind
    /\ TypingBelow(res.node) = {}

\* C12: when field typing of a Transform succeeds, the types it gathered
\* are distributed along the inheritance chain of its type from the root
\* class downward: each class has as many of the leading types as it
\* declares fields itself, and the next class goes on from there.
C12_FieldsAlongChain ==
    (Typed("Transform") /\ res.out = "ok") =>
        LET chain == get_inheritance_chain(nodes[res.node].typ)
            types == GatheredTypes(res.node)
        IN  \A i \in DOMAIN chain :
                /\ Len(field_types[chain[i]]) = OwnFieldCount(chain[i])
                /\ \A k \in 1..OwnFieldCount(chain[i]) :
                      /\ FieldsBefore(chain, i) + k <= Len(types)
                      /\ field_types[chain[i]][k] = types[FieldsBefore(chain, i) + k]

\* Transform(Row(a, b), NodeA1) with a and b of different types: NodeA has
\* the type of a, NodeA1 the type of b, and ASTNode nothing
C12_Witness ==
    /\ Typed("Transform") /\ res.out = "ok"
    /\ nodes[res.node].typ = "NodeA1"
    /\ nodes[nodes[res.node].kids[1]].kind = "Row"
    /\ Len(GatheredTypes(res.node)) = 2
    /\ GatheredTypes(res.node)[1] # GatheredTypes(res.node)[2]
    /\ field_types["ASTNode"] = <<>>
    /\ field_types["NodeA"] = <<GatheredTypes(res.node)[1]>>
    /\ field_types["NodeA1"] = <<GatheredTypes(res.node)[2]>>

\* C13: field typing of a Transform fails when a gathered type is None,
\* and when the number of gathered types is not the number of fields
\* declared along the inheritance chain of its type.
C13_RejectsMismatch ==
    Typed("Transform") =>
        LET types == GatheredTypes(res.node)
        IN  (\/ \E i \in DOMAIN types : types[i] = None
             \/ Len(types) # FieldCount(nodes[res.node].typ))
            => res.out \in Exceptions

\* C14: field typing of a folding List gives the type of the elements of
\* the list to the two fields of the fold target, and fails when the fold
\* target does not have exactly two fields.
C14_FoldElementType ==
    (Typed("List") /\ nodes[res.node].revtree # None) =>
        /\ res.out = "ok" =>
              field_types[nodes[res.node].revtree]
                 = <<TypeOf(nodes[res.node].kids[1]), TypeOf(nodes[res.node].kids[1])>>
        /\ FieldCount(nodes[res.node].revtree) # 2 => res.out \in Exceptions

\* C14 (as the code has it): the two fields of the fold target have the
\* type of the folding List itself, the common ancestor of the type of its
\* elements and of the fold target; field typing fails when the fold
\* target does not have exactly two fields.
C14_FoldListType ==
    (Typed("List") /\ nodes[res.node].revtree # None) =>
        /\ res.out = "ok" =>
              /\ field_types[nodes[res.node].revtree]
                    = <<TypeOf(res.node), TypeOf(res.node)>>
              /\ TypeOf(res.node)
                    = common_ancestor({TypeOf(nodes[res.node].kids[1]),
                                       nodes[res.node].revtree})
        /\ FieldCount(nodes[res.node].revtree) # 2 => res.out \in Exceptions

\* a List of NodeA elements folded into NodeB: the fields of NodeB have the
\* type ASTNode
C14_Witness ==
    /\ Typed("List") /\ res.out = "ok"
    /\ nodes[res.node].revtree = "NodeB"
    /\ TypeOf(nodes[res.node].kids[1]) = "NodeA"
    /\ field_types["NodeB"] = <<"ASTNode", "ASTNode">>

\* ======================================================================
\* Properties of Grammar.add_rules
\* ======================================================================
\* C15: add_rules with a name that is already registered fails, and the
\* registry (and every parser) is as it was: the name still maps to the
\* node registered first.
C15_DuplicateFails ==
    [][(res'.op = "add_rules" /\ res'.rule \in DOMAIN rules)
          => (res'.out = "AssertionError" /\ rules' = rules /\ obj' = obj)]_vars

\* another parser was offered under a registered name, and the name still
\* maps to the parser registered first
C15_Witness ==
    /\ res.op = "add_rules" /\ res.out = "AssertionError"
    /\ res.rule \in DOMAIN rules
    /\ rules[res.rule] # res.node

\* C16: every parser in the registry is marked is_root, is bound to the
\* grammar and carries the name of the rule it is registered under, and no
\* entry of the registry is ever removed or replaced.
C16_RegisteredNodes ==
    /\ [](\A n \in DOMAIN rules :
            /\ obj[rules[n]].is_root
            /\ obj[rules[n]].grammar = "G"
            /\ obj[rules[n]].gen_fn_name.name = n)
    /\ [][\A n \in DOMAIN rules : n \in DOMAIN rules' /\ rules'[n] = rules[n]]_vars

\* ======================================================================
\* Properties of forward references
\* ======================================================================
Defers == {d \in 1..Len(nodes) : nodes[d].kind = "Defer"}

\* C17: a forward reference is built without a lookup, whether its rule is
\* registered or not; its rule is looked up in the registry by a use, at
\* most once; once it has a parser it keeps it, every later use returns
\* that parser and none looks the rule up again.
C17_ResolvedOnce ==
    /\ [](\A d \in Defers :
            /\ obj[d].lookups <= 1
            /\ obj[d].parser_ # 0 <=> obj[d].lookups = 1
            /\ obj[d].parser_ # 0 => obj[d].parser_ = rules[nodes[d].name]
            /\ Defining => obj[d].parser_ = 0)
    /\ [][\A d \in Defers :
            /\ obj[d].parser_ # 0 => obj'[d] = obj[d]
            /\ (res'.op = "parser" /\ res'.node = d /\ res'.out = "ok")
                  => res'.parser = obj'[d].parser_]_vars

\* the rule S refers to itself through a forward reference built before S
\* was registered; a use of the reference that had its parser already
\* returned the rule S, looked up once
C17_Witness ==
    /\ res.op = "parser" /\ res.cached /\ res.out = "ok"
    /\ nodes[res.node].name = "S"
    /\ res.parser = rules["S"]
    /\ res.node \in Descendants(nodes, rules["S"])
    /\ obj[res.node].lookups = 1

\* ======================================================================
\* Properties of the operator |
\* ======================================================================
\* the ordered alternatives of parser p: its sub-parsers if it is an
\* alternation, itself if not
AlternativesIn(h, p) == IF h[p].kind = "Or" THEN h[p].kids ELSE <<p>>

\* no direct child of p is an alternation
FlatIn(h, p) == \A i \in DOMAIN AlternativesIn(h, p) : h[AlternativesIn(h, p)[i]].kind # "Or"

\* the child list of (a | b) | c and of a | (b | c)
LeftFirst(a, b, c) ==
    Parser_or(Append(nodes, Parser_or(nodes, a, b)), Len(nodes) + 1, c).kids
RightFirst(a, b, c) ==
    Parser_or(Append(nodes, Parser_or(nodes, b, c)), a, Len(nodes) + 1).kids

\* C18: p | q builds a new alternation whose children are the alternatives
\* of p followed by those of q (none of them an alternation when p and q
\* are flat), p and q and every other parser are as they were, and
\* a | (b | c) has the child list of (a | b) | c.
C18_OrFlattens ==
    /\ [][(res'.op = "__or__" /\ res'.parser > Len(nodes))
            => /\ res'.parser = Len(nodes')
               /\ nodes'[res'.parser].kind = "Or"
               /\ nodes'[res'.parser].kids
                     = AlternativesIn(nodes', res'.visits[1])
                          \o AlternativesIn(nodes', res'.visits[2])
               /\ (FlatIn(nodes', res'.visits[1]) /\ FlatIn(nodes', res'.visits[2]))
                     => FlatIn(nodes', res'.parser)
               /\ \A i \in DOMAIN nodes : nodes'[i] = nodes[i] /\ obj'[i] = obj[i]]_vars
    /\ [](\A a, b, c \in DOMAIN nodes : LeftFirst(a, b, c) = RightFirst(a, b, c))

\* a | q with q the alternation Or(b, c), built by the constructor or by |:
\* the new alternation has the three children a, b, c
C18_Witness ==
    /\ res.op = "__or__"
    /\ nodes[res.visits[1]].kind # "Or"
    /\ nodes[res.visits[2]].kind = "Or"
    /\ Len(nodes[res.visits[2]].kids) = 2
    /\ nodes[res.parser].kids = <<res.visits[1]>> \o nodes[res.visits[2]].kids
    /\ FlatIn(nodes, res.parser)

\* ======================================================================
\* Properties of the modes of Opt
\* ======================================================================
\* C19: as_bool() and error() on an Opt each return a copy of it with the
\* flag of the mode set and every other field as in the original; the Opt
\* they were called on, its result type, the parser it wraps and every
\* other parser are as they were before the call.
C19_ModesCopy ==
    [][(res'.op = "copy_with" /\ res' # res)
          => /\ res'.out = "ok"
             /\ res'.parser = Len(nodes) + 1
             /\ nodes'[res'.parser]
                   = IF res'.names = {"_booleanize"}
                     THEN [nodes[res'.node] EXCEPT !.booleanize = TRUE]
                     ELSE [nodes[res'.node] EXCEPT !.is_error = TRUE]
             /\ \A i \in DOMAIN nodes : nodes'[i] = nodes[i] /\ obj'[i] = obj[i]
             /\ get_type(nodes', rules, res'.node, obj', RecursionLimit, hash_order).t
                   = get_type(nodes, rules, res'.node, obj, RecursionLimit, hash_order).t]_vars

\* ======================================================================
\* Properties of Discard
\* ======================================================================
\* the names the generated parsers declare
DeclaredNames ==
    UNION {{ctx.generated_parsers[u].var_defs[k].name :
               k \in DOMAIN ctx.generated_parsers[u].var_defs} :
              u \in DOMAIN ctx.generated_parsers}

\* the places that hold the code of a Row, and the slots of that Row that
\* hold a Discard
RowPlaces == {pl \in Places : At(pl).template = "row_code_ada"}
DiscardSlots(r) == {i \in DOMAIN nodes[r].kids : nodes[nodes[r].kids[i]].kind = "Discard"}

\* C20: a Discard reports discard and has no result type; in the code
\* emitted for a Row, the sub-result of a slot that holds a Discard is not
\* declared and is not among the kept arguments of the Row; and every
\* Discard constructed over a Row was bound to it as its wrapper by its
\* constructor.
C20_DiscardDrops ==
    /\ \A d \in 1..Len(nodes) :
          nodes[d].kind = "Discard" =>
             /\ discard(nodes, d)
             /\ get_type(nodes, rules, d, obj, RecursionLimit, hash_order).t = None
             /\ nodes[nodes[d].kids[1]].kind = "Row" =>
                   \E i \in DOMAIN bindings :
                       /\ bindings[i].wrapper = d /\ bindings[i].row = nodes[d].kids[1]
                       /\ bindings[i].during = "__init__" /\ bindings[i].out = "ok"
    /\ \A pl \in RowPlaces :
          \A i \in DiscardSlots(At(pl).self) :
              /\ At(pl).args[i] \notin DeclaredNames
              /\ \A k \in DOMAIN obj[At(pl).self].args :
                    obj[At(pl).self].args[k] # At(pl).args[i]

\* code was emitted for a Row with a Discard in one slot and a kept
\* sub-parser in another: the sub-result of the second is declared and kept
C20_Witness ==
    \E pl \in RowPlaces :
        /\ DiscardSlots(At(pl).self) # {}
        /\ \E i \in DOMAIN At(pl).args :
              /\ i \notin DiscardSlots(At(pl).self)
              /\ At(pl).args[i] \in DeclaredNames
              /\ obj[At(pl).self].args = <<At(pl).args[i]>>

\* a Discard was constructed over a Row and bound to it
C20_WitnessBound ==
    \E d \in 1..Len(nodes) :
        nodes[d].kind = "Discard" /\ nodes[nodes[d].kids[1]].kind = "Row"

\* ======================================================================
\* Properties of always_make_progress
\* ======================================================================
\* the predicate as stated: false for Opt and Null, true for a List only
\* if empty_valid is false and its element always makes progress, true
\* for every other parser
RECURSIVE StatedProgress(_, _)
StatedProgress(h, p) ==
    CASE h[p].kind \in {"Opt", "Null"} -> FALSE
      [] h[p].kind = "List" -> (~h[p].ev) /\ StatedProgress(h, h[p].kids[1])
      [] OTHER -> TRUE

\* C21: always_make_progress is false for Opt and Null; for a List it is
\* true only if empty_valid is false and its element always makes
\* progress; it is true for every other parser.
C21_ProgressPredicate ==
    res.op = "always_make_progress" =>
        (res.out = "True") = StatedProgress(nodes, res.node)

\* the cases of the predicate other than List
C21_OtherThanList ==
    (res.op = "always_make_progress" /\ nodes[res.node].kind # "List") =>
        (res.out = "True") = StatedProgress(nodes, res.node)

\* ======================================================================
\* Properties of the registry of generated units
\* ======================================================================
\* C22 as stated: the units are in first-compiled order, a unit whose
\* identifier entered fns before the identifier of another unit precedes
\* it in generated_parsers.
C22_FirstCompiledOrder ==
    \A i, j \in DOMAIN ctx.added :
        i < j =>
           \A u \in UnitsNamed(ctx.added[i]), v \in UnitsNamed(ctx.added[j]) : u < v

\* C22: the units are in the order in which the compilations complete.
\* An emission call only appends to generated_parsers; when it compiles
\* a rule and returns, the unit of that rule is the last one, and the unit
\* of every rule that was first compiled during the emission of its body
\* precedes it, although its identifier entered fns later.
C22_CompletionOrder ==
    [][LET n == Len(ctx.added)
           m == Len(ctx.generated_parsers)
           units == ctx'.generated_parsers
       IN  /\ Len(units) >= m
           /\ SubSeq(units, 1, m) = ctx.generated_parsers
           /\ (Len(ctx'.added) > n /\ res'.out = "ok") =>
                 /\ Len(units) > m
                 /\ units[Len(units)].name = ctx'.added[n + 1]
                 /\ \A k \in (n + 2)..Len(ctx'.added) :
                       \E u \in (m + 1)..(Len(units) - 1) :
                           units[u].name = ctx'.added[k]]_vars

\* the compilation of a rule compiled another rule on the way: the second
\* identifier that entered fns names the first unit
C22_Witness ==
    /\ res.op = "compile" /\ res.out = "ok"
    /\ Len(ctx.added) = 2 /\ Len(ctx.generated_parsers) = 2
    /\ ctx.generated_parsers[1].name = ctx.added[2]
    /\ ctx.generated_parsers[2].name = ctx.added[1]
    /\ ctx.added[1] # ctx.added[2]

\* ======================================================================
\* Properties of Opt.__getitem__
\* ======================================================================
\* C23: opt[i] succeeds only when the parser that opt wraps is a Row, and
\* then it builds Extract(row, i) and returns a new Opt over it, leaving
\* the parsers that existed as they were; for any other wrapped parser it
\* fails with an AssertionError and builds nothing.
C23_IndexedOpt ==
    [][res'.op = "__getitem__" =>
        LET opt == res'.node
            m == nodes[opt].kids[1]
            n == Len(nodes)
        IN  IF nodes[m].kind = "Row"
            THEN /\ res'.out = "ok"
                 /\ Len(nodes') = n + 2
                 /\ SubSeq(nodes', 1, n) = nodes
                 /\ SubSeq(obj', 1, n) = obj
                 /\ res'.parser = n + 2
                 /\ nodes'[n + 2] = Opt(n + 1)
                 /\ nodes'[n + 1] = Extract(m, res'.visits[1])
                 /\ bindings' = bindings
            ELSE /\ res'.out = "AssertionError"
                 /\ nodes' = nodes /\ obj' = obj]_vars

\* opt[0] was taken of an Opt over an anonymous Row
C23_Witness ==
    /\ res.op = "__getitem__" /\ res.out = "ok" /\ res.visits = <<0>>
    /\ nodes[res.node].contains_anonymous_row
    /\ nodes[nodes[res.parser].kids[1]].kind = "Extract"

\* opt[0] was taken of an Opt over a token
C23_WitnessFails ==
    /\ res.op = "__getitem__" /\ res.out = "AssertionError"
    /\ nodes[nodes[res.node].kids[1]].kind = "Tok"

\* ======================================================================
\* Termination of Grammar.get_unreferenced_rules
\* ======================================================================
\* every forward reference of the grammar names a registered rule
AllDefersRegistered ==
    \A p \in 1..Len(nodes) : nodes[p].kind = "Defer" => nodes[p].name \in DOMAIN rules

\* C24: on a grammar whose forward references all name registered rules,
\* self-referential and mutually referential rules included,
\* get_unreferenced_rules() ends without exhausting the call stack; it
\* returns when the main rule is registered; and it visits the tree of a
\* rule at most once, no rule name occurring twice among the rules it
\* visited.
C24_VisitsOnce ==
    (res.op = "get_unreferenced_rules" /\ AllDefersRegistered) =>
        /\ res.out # "RuntimeError"
        /\ main \in DOMAIN rules =>
              /\ res.out = "ok"
              /\ \A i \in DOMAIN res.visits : res.visits[i] \in DOMAIN rules
        /\ \A i, j \in DOMAIN res.visits : res.visits[i] = res.visits[j] => i = j

\* the traversal returned on a grammar in which the main rule refers to
\* itself and to a rule that refers back to it
C24_Witness ==
    /\ res.op = "get_unreferenced_rules" /\ res.out = "ok" /\ AllDefersRegistered
    /\ Len(res.visits) >= 2
    /\ main \in DeferredNames(nodes, rules[main])
    /\ \E r \in DOMAIN rules \ {main} :
          /\ r \in DeferredNames(nodes, rules[main])
          /\ main \in DeferredNames(nodes, rules[r])

\* ======================================================================
\* Termination of code emission
\* ======================================================================
\* the units that call themselves: the body of the unit of root parser p
\* holds a call to p
SelfCalling ==
    {i \in DOMAIN ctx.generated_parsers :
        \E p \in 1..Len(nodes), k \in DOMAIN ctx.generated_parsers[i].body :
            /\ obj[p].gen_fn_name = ctx.generated_parsers[i].name
            /\ ctx.generated_parsers[i].body[k] = CallTo(p)}

\* no cycle of get_type calls without an alternation
NoOrFreeCycle == \A p \in 1..Len(nodes) : ~OnOrFreeCycle(nodes, rules, p)

\* C25 as stated: code emission started from any root rule terminates
\* for every rule graph: it never exhausts the call stack.
C25_TerminatesOnEveryGraph ==
    res.op \in {"compile", "gen_code_or_fncall"} => res.out # "RuntimeError"

\* C25: code emission started from a root rule terminates for every rule
\* graph, self- and mutually-recursive rules included, in which every
\* cycle of get_type calls passes through an alternation (the call and the
\* declaration emitted for a reference to a rule ask for its type).  The
\* identifier of a rule is in fns before its body is emitted: a reference
\* to a rule that is being compiled yields a call, and the code of a root
\* parser is emitted once, in its own unit.
C25_TerminatesOnRecursiveRules ==
    /\ (res.op \in {"compile", "gen_code_or_fncall"} /\ NoOrFreeCycle)
          => res.out # "RuntimeError"
    /\ \A p \in 1..Len(nodes) :
          obj[p].is_root =>
             /\ Cardinality(InlinePlacesOf(p)) <= 1
             /\ \A pl \in InlinePlacesOf(p) :
                   ctx.generated_parsers[pl[1]].name = obj[p].gen_fn_name
    /\ \A i \in DOMAIN ctx.generated_parsers : ctx.generated_parsers[i].name \in ctx.fns

\* a rule that refers to itself was compiled: its unit calls itself
C25_Witness ==
    /\ res.op = "compile" /\ res.out = "ok"
    /\ SelfCalling # {}

\* two rules that refer to each other were compiled
C25_WitnessMutual ==
    /\ res.op = "compile" /\ res.out = "ok"
    /\ \E i, j \in DOMAIN ctx.generated_parsers, p, q \in 1..Len(nodes) :
          /\ i # j
          /\ obj[p].gen_fn_name = ctx.generated_parsers[i].name
          /\ obj[q].gen_fn_name = ctx.generated_parsers[j].name
          /\ \E k \in DOMAIN ctx.generated_parsers[i].body :
                ctx.generated_parsers[i].body[k] = CallTo(q)
          /\ \E k \in DOMAIN ctx.generated_parsers[j].body :
                ctx.generated_parsers[j].body[k] = CallTo(p)

\* ======================================================================
\* Left recursion and forward references
\* ======================================================================
\* C26: a forward reference is left-recursive for rule R iff the name it
\* refers to is R, and the analysis neither resolves it nor descends into
\* its target: is_left_recursive returns on every grammar, cyclic ones
\* included, no forward reference is resolved by it, and a rule it
\* reports as left-recursive refers to itself in its own body (a rule that
\* reaches itself only through the body of another rule is not reported).
C26_DeferByName ==
    res.op = "is_left_recursive" =>
        /\ res.out \in {"True", "False", "AssertionError"}
        /\ \A d \in 1..Len(nodes) : obj[d].parser_ = 0 /\ obj[d].lookups = 0
        /\ res.out = "True" => res.rule \in DeferredNames(nodes, rules[res.rule])

\* the same for the rules whose root parser is not a forward reference
C26_ExceptBareReference ==
    (res.op = "is_left_recursive" /\ nodes[rules[res.rule]].kind # "Defer") =>
        /\ res.out \in {"True", "False", "AssertionError"}
        /\ \A d \in 1..Len(nodes) : obj[d].parser_ = 0 /\ obj[d].lookups = 0
        /\ res.out = "True" => res.rule \in DeferredNames(nodes, rules[res.rule])

\* ======================================================================
\* Properties of the diagnostics
\* ======================================================================
\* the call of check_source_language just made reported a non-blocking
\* error: its predicate was false and its severity non_blocking_error
NonBlocking == 
    /\ res'.op = "check_source_language"
    /\ ~res'.call.predicate
    /\ res'.call.severity = "non_blocking_error"

\* the assert on the emitter of the compile context passes
OutsideCodegen == res'.call.ok_for_codegen \/ ~res'.call.emitter

\* what a checkpoint does, and what the calls that report no non-blocking
\* error leave alone
CheckpointRaisesOnce ==
    /\ res'.op = "errors_checkpoint" =>
          /\ (res'.out = "DiagnosticError") = diagnostics.has_pending_error
          /\ res'.out \in {"ok", "DiagnosticError"}
          /\ ~diagnostics'.has_pending_error
    /\ (res'.op = "check_source_language" /\ ~(NonBlocking /\ OutsideCodegen)) =>
          diagnostics'.has_pending_error = diagnostics.has_pending_error

\* C27 as stated: check_source_language with a false predicate and
\* severity non_blocking_error does not raise and records a pending
\* error; the next errors_checkpoint() raises DiagnosticError and clears
\* the flag, and errors_checkpoint() does not raise when no non-blocking
\* error was reported since the last checkpoint.
C27_DeferredErrors ==
    [][/\ NonBlocking => (res'.out = "ok" /\ diagnostics'.has_pending_error)
       /\ CheckpointRaisesOnce]_vars

\* C27: the same for the calls of check_source_language that pass the
\* assert on the compile context (no emitter, or ok_for_codegen given);
\* the other calls raise AssertionError and record nothing.
C27_DeferredOutsideCodegen ==
    [][/\ (NonBlocking /\ OutsideCodegen) =>
              (res'.out = "ok" /\ diagnostics'.has_pending_error)
       /\ (res'.op = "check_source_language" /\ ~OutsideCodegen) =>
              (res'.out = "AssertionError" /\ diagnostics' = diagnostics)
       /\ CheckpointRaisesOnce]_vars

\* a checkpoint raised for a non-blocking error that was reported
C27_Witness ==
    /\ res.op = "errors_checkpoint" /\ res.out = "DiagnosticError"
    /\ ~diagnostics.has_pending_error
    /\ diagnostics.printed > 0

\* ======================================================================
\* The result variable of Extract
\* ======================================================================
\* the names unit u declares
DeclaredIn(u) ==
    {ctx.generated_parsers[u].var_defs[k].name : k \in DOMAIN ctx.generated_parsers[u].var_defs}

\* the units compiled for a rule whose root parser is an Extract with a
\* valid slot index
ExtractUnits ==
    {u \in DOMAIN ctx.generated_parsers :
        \E p \in 1..Len(nodes) :
            /\ nodes[p].kind = "Extract"
            /\ obj[p].gen_fn_name = ctx.generated_parsers[u].name
            /\ nodes[p].index < Len(nodes[nodes[p].kids[1]].kids)}

\* the Extract that unit u was compiled for
ExtractOf(u) ==
    CHOOSE p \in 1..Len(nodes) : obj[p].gen_fn_name = ctx.generated_parsers[u].name

\* the sub-parser in the slot that Extract p selects
SelectedBy(p) == nodes[nodes[p].kids[1]].kids[nodes[p].index + 1]

\* C28: the result variable that the emission of Extract(seq, i) reports
\* is one of the variables declared in the declaration list it returns,
\* also when the sub-parser in slot i discards its match.
C28_ResultDeclared ==
    \A u \in ExtractUnits : ctx.generated_parsers[u].res_var_name \in DeclaredIn(u)

\* the same for the Extracts that select a slot whose sub-parser keeps
\* its match, in the grammars in which no Row is held by two parsers
C28_KeptSlotDeclared ==
    (\A r \in 1..Len(nodes) :
        nodes[r].kind = "Row" =>
            Cardinality({w \in 1..Len(nodes) : r \in SubParsers(nodes, w)}) <= 1) =>
    \A u \in ExtractUnits :
        ~discard(nodes, SelectedBy(ExtractOf(u)))
            => ctx.generated_parsers[u].res_var_name \in DeclaredIn(u)

\* ======================================================================
\* The two registries of a compilation session
\* ======================================================================
\* the identifiers of the units in generated_parsers
UnitNames == {ctx.generated_parsers[u].name : u \in DOMAIN ctx.generated_parsers}

\* C29: the identifier of every unit of generated_parsers is in fns, and
\* when no compile call is in progress the two hold the same identifiers:
\* also after the emission of the body of a root rule failed, no rule is
\* marked as compiled without a unit.
C29_RegistriesAgree ==
    /\ UnitNames \subseteq ctx.fns
    /\ ctx.fns = UnitNames

\* the same as long as no emission call has failed
C29_AgreeUntilFailure ==
    /\ UnitNames \subseteq ctx.fns
    /\ ~(res.op \in {"compile", "gen_code_or_fncall"} /\ res.out \in Exceptions)
          => ctx.fns = UnitNames

\* ======================================================================
\* The in-progress flag of Or.get_type
\* ======================================================================
\* C30: is_processing_type of an Or is true only while a get_type call on
\* that Or is active: it is false whenever no call is active, after a
\* get_type call that returned and after one that failed, so that a later
\* get_type call on the Or returns the cached type or computes the type
\* again, and never returns None because of the flag.
C30_FlagOnlyWhileActive ==
    /\ \A p \in 1..Len(nodes) : ~obj[p].is_processing_type
    /\ (res.op = "get_type" /\ nodes[res.node].kind = "Or") =>
          \/ res.computed
          \/ res.out # None /\ res.out = obj[res.node].cached_type

\* a get_type call on an alternation failed below another alternation
C30_Witness ==
    /\ res.op = "get_type" /\ res.out \in Exceptions
    /\ nodes[res.node].kind = "Or"
    /\ \E i \in 1..Len(nodes[res.node].kids) :
          nodes[nodes[res.node].kids[i]].kind = "Or"

====
